---- MODULE Spec2Model ----
(***************************************************************************)
(* Connector queue, completion tracking, post repository and enrichment    *)
(* pipeline of the gifview server (apps/server/src/modules).               *)
(*                                                                         *)
(* Spec        one connector queue (rss.handler.ts; the Spotify handler    *)
(*             has the same queue and tracker code) with its completion    *)
(*             tracker and the posts table.                                *)
(* SpecEnrich  the enrichment queue's per-item handler and the gifs,       *)
(*             post2interest and posts.ai_checked writes.                  *)
(***************************************************************************)
EXTENDS Integers, Sequences, FiniteSets, TLC

\* ------------------------------------------------------------------------
\* Bounds
\* ------------------------------------------------------------------------
\* QUEUE_CONFIG.MAX_SIZE (50 in the source), scaled down.
MAX_SIZE == 2
\* QUEUE_CONFIG.DEFAULT_MAX_ITEMS (5 in the source), scaled down.
DEFAULT_MAX_ITEMS == 2
\* QUEUE_CONFIG.WAIT_MS (10000 in the source), in units of time of the
\* model.
WAIT_MS == 1
\* Number of sync() calls of one run of the model.
MaxSyncs == 2
\* Largest number of items the upstream feed returns.
MaxFeed == 3
\* Number of distinct (sourceLink, sourceKey) pairs upstream.
NumKeys == 2
\* Largest number of per-item handlers in flight at the same time.
MaxInFlight == 2
\* Number of enrichPostsList() calls of one run of the model.
MaxRuns == 1
\* QUEUE_CONFIG.MAX_POSTS_PER_RUN (5 in the source), scaled down.
MAX_POSTS_PER_RUN == 2
\* Number of posts in the posts table of the enrichment model.
NumPosts == 2
\* Number of distinct image urls the search providers return.
NumUrls == 2
\* Largest number of searches computed from one topic, and of urls in one
\* search response.
MaxSearches == 2
\* Number of interests of the category store.
NumInterests == 1
\* Number of main interests of the interest tree; each has one sub and one
\* subsub descendant.
NumMain == 2
\* Largest number of lines of one AI response.
MaxLines == 2
\* Largest number of lines of a topic suggestion.
MaxTopicLines == 2
\* Largest number of comma-separated keywords of one topic line.
MaxKeywords == 2
\* Number of active connectors of the connectors table.
NumConnectors == 4
\* Number of cron ticks (minutes) of one run of the model.
MaxTicks == 3
\* Fetch period in minutes of a connector without fetch_period_minutes (60
\* in the source), scaled down.
DEFAULT_FETCH_PERIOD == 2
\* Number of manual sync calls (syncConnectorById, syncConnectorsByType) of
\* one run of the model.
MaxManual == 1
\* Number of cron ticks of a run with manual sync calls.
ManualTicks == 2
\* Number of registerConnector calls of one run of the model.
MaxRegistrations == 4
\* Largest number of tokens of a connector_type text.
MaxTokens == 4
\* Number of enrichPostsList() calls of a run of the model in which runs
\* overlap.
MaxOverlapRuns == 2
\* Number of posts in the posts table when runs overlap: more than one run
\* selects.
NumRunPosts == 3

Keys == 1..NumKeys
PostIds == 1..NumPosts
Urls == 1..NumUrls
Interests == 1..NumInterests

\* The empty url "" of a GifResult.
NoUrl == 0
RunPosts == 1..NumRunPosts

Batches ==
  1..(IF MaxSyncs > MaxRuns /\ MaxSyncs > MaxOverlapRuns THEN MaxSyncs
      ELSE IF MaxRuns > MaxOverlapRuns THEN MaxRuns ELSE MaxOverlapRuns)

\* activeSyncJob = null
NoJob == [armed |-> FALSE, batch |-> 0, queuedCount |-> 0, totalItems |-> 0,
          startExecutionCount |-> 0]

\* What the caller passed as onComplete: nothing, a callback that resolves,
\* or a callback whose promise rejects.
CallbackKinds == {"none", "ok", "fails"}

VARIABLES
  items,            \* Queuer state.items: the backlog, oldest first
  executionCount,   \* Queuer state.executionCount
  rejectionCount,   \* Queuer state.rejectionCount
  pendingTick,      \* Queuer state.pendingTick: the wait timer is set
  elapsed,          \* time since the last execution started, up to WAIT_MS
  activeSyncJob,    \* module variable activeSyncJob / activeEnrichmentJob
  handlers,         \* per-item handler executions that have not finished
  posts,            \* posts table: number of rows per (sourceLink, sourceKey)
  calls,            \* completion callbacks invoked so far, in order
  batch,            \* per sync call: what it submitted and what became of it
  nextBatch,        \* number of the next sync call
  disturbed,        \* batches during whose drain another sync call ran
  overwrites,       \* <<b1, b2>>: sync b2 replaced the armed tracker of b1
  evLog,            \* onItemsChange events raised by the last step
  enqLog,           \* addItem calls made by the last step
  retLog,           \* the SyncResult returned by the last step
  aiChecked,        \* posts.ai_checked is set, per post id
  isDeleted,        \* posts.is_deleted, per post id
  chosen,           \* posts some enrichment run has selected
  gifs,             \* gifs table: rows [url, postId]
  links,            \* post2interest table: number of rows per (post, interest)
  done,             \* the enrichment handler execution that finished last
  passed,           \* posts for which some execution got past phase 1
  interestStore,    \* interests table: ids with active set and not deleted
  depthPc,          \* suggestInterests: 0 not called, 1..3 the depth to run
                    \* next, 4 returned, 5 threw
  selected,         \* suggestInterests: ids returned per depth
  depthLog,         \* suggestInterests: what getInterestsForDepth did per depth
  topicSuggestion,  \* computeGifSearches: the lines of its argument
  gifSearches,      \* computeGifSearches: the searches it returned
  searched,         \* computeGifSearches has been called
  clock,            \* wall clock in minutes; cron fires at every minute
  lastSyncTimes,    \* module variable lastSyncTimes, per connector
  ticks,            \* schedulerTick executions, by the minute they started
  dispatches,       \* handler.sync calls made by ticks, in order
  connectorRegistry,\* module variable connectorRegistry: the handlers stored
  registrations,    \* registerConnector calls made, in order
  parseLog,         \* parseConnectorType applications: input and result
  manual            \* syncConnectorById / syncConnectorsByType calls, in order

\* ------------------------------------------------------------------------
\* The upstream source
\* ------------------------------------------------------------------------
\* The feed with n items: item i carries key ((i-1) mod NumKeys) + 1, so
\* that two syncs of the same source see the same items again.
Feed(n) == [i \in 1..n |-> ((i - 1) % NumKeys) + 1]

Min(a, b) == IF a < b THEN a ELSE b

\* rssList.slice(0, maxItems)
Slice(s, n) == SubSeq(s, 1, Min(Len(s), n))

\* ------------------------------------------------------------------------
\* The queue (Queuer of @tanstack/pacer, constructed in getQueue)
\* ------------------------------------------------------------------------
\* The synchronous part of a step works on a record w of everything the
\* step can change.
World == [items |-> items, executionCount |-> executionCount,
          rejectionCount |-> rejectionCount, pendingTick |-> pendingTick,
          elapsed |-> elapsed,
          activeSyncJob |-> activeSyncJob, handlers |-> handlers,
          calls |-> calls, batch |-> batch, evLog |-> <<>>, enqLog |-> <<>>,
          retLog |-> <<>>]

\* Mutant of QueueMaxSize: the limit is one too large.
QueueMaxSizeOffByOne == MAX_SIZE + 1

\* The maxSize option passed to the Queuer: QUEUE_CONFIG.MAX_SIZE.
QueueMaxSize == MAX_SIZE

\* Number of accepted items of batch b whose handler has not finished.
Unfinished(w, b) == w.batch[b].accepted - w.batch[b].finished

\* job.onComplete(job.queuedCount, processedForThisJob, job.totalItems)
InvokeCallback(w, job, processed) ==
  [w EXCEPT !.calls = Append(@, [batch |-> job.batch,
                                  queued |-> job.queuedCount,
                                  processed |-> processed,
                                  totalItems |-> job.totalItems,
                                  unfinished |-> Unfinished(w, job.batch),
                                  armedAtCall |-> w.activeSyncJob.armed,
                                  failed |-> w.batch[job.batch].cb = "fails"])]

\* Mutant of onItemsChange: the tracker is not cleared when it fires.
onItemsChangeKeepsJob(w) ==
  LET job == w.activeSyncJob
      processedForThisJob == w.executionCount - job.startExecutionCount
      fires == job.armed /\ Len(w.items) = 0 /\ processedForThisJob > 0
      ev == [size |-> Len(w.items), executionCount |-> w.executionCount,
             job |-> job, fired |-> fires, jobAfter |-> job]
      w1 == [w EXCEPT !.evLog = Append(@, ev)]
  IN IF fires THEN InvokeCallback(w1, job, processedForThisJob) ELSE w1

\* Mutant of onItemsChange: the guard processedForThisJob > 0 is missing.
onItemsChangeNoGuard(w) ==
  LET job == w.activeSyncJob
      processedForThisJob == w.executionCount - job.startExecutionCount
      fires == job.armed /\ Len(w.items) = 0
      ev == [size |-> Len(w.items), executionCount |-> w.executionCount,
             job |-> job, fired |-> fires,
             jobAfter |-> IF fires THEN NoJob ELSE job]
      w1 == [w EXCEPT !.evLog = Append(@, ev)]
  IN IF fires
       THEN InvokeCallback([w1 EXCEPT !.activeSyncJob = NoJob], job,
                           processedForThisJob)
       ELSE w1

\* The onItemsChange option: fire the armed tracker when the backlog is
\* empty and at least one execution was counted since it was armed.
onItemsChange(w) ==
  LET job == w.activeSyncJob
      processedForThisJob == w.executionCount - job.startExecutionCount
      fires == job.armed /\ Len(w.items) = 0 /\ processedForThisJob > 0
      ev == [size |-> Len(w.items), executionCount |-> w.executionCount,
             job |-> job, fired |-> fires,
             jobAfter |-> IF fires THEN NoJob ELSE job]
      w1 == [w EXCEPT !.evLog = Append(@, ev)]
  IN IF fires
       THEN InvokeCallback([w1 EXCEPT !.activeSyncJob = NoJob], job,
                           processedForThisJob)
       ELSE w1

\* Queuer.getNextItem: remove the oldest item, then notify onItemsChange.
getNextItem(w) == onItemsChange([w EXCEPT !.items = Tail(@)])

\* The per-item handler is an async function the queue does not await: the
\* call starts it and returns at its first await (the existence check of
\* a connector item, the topic call of an enrichment item).
StartHandler(w, item) ==
  [w EXCEPT !.handlers = @ \cup {[batch |-> item.batch, pos |-> item.pos,
                                  key |-> item.key, pc |-> "start",
                                  gap |-> w.elapsed,
                                  sawFailure |->
                                    w.batch[item.batch].failedPos # {},
                                  url |-> NoUrl, urlStored |-> FALSE,
                                  ints |-> {},
                                  intsCalled |-> FALSE, intsFailed |-> FALSE,
                                  wroteGif |-> FALSE, wroteLinks |-> FALSE]},
            !.batch[item.batch].started = @ + 1,
            !.batch[item.batch].startedPos = @ \cup {item.pos}]

\* Mutant of execute: the execution is not counted.
executeCountsNothing(w) ==
  LET item == Head(w.items)
      w1 == StartHandler(getNextItem(w), item)
  IN [w1 EXCEPT !.elapsed = 0]

\* Queuer.execute: getNextItem, fn(item), then executionCount + 1. The time
\* since the last execution is counted from here.
execute(w) ==
  LET item == Head(w.items)
      w1 == StartHandler(getNextItem(w), item)
  IN [w1 EXCEPT !.executionCount = @ + 1, !.elapsed = 0]

\* Queuer tick (started: true, wait > 0): execute the oldest item and set
\* the wait timer, or go idle when the backlog is empty.
tick(w) ==
  IF Len(w.items) = 0
    THEN [w EXCEPT !.pendingTick = FALSE]
    ELSE [execute(w) EXCEPT !.pendingTick = TRUE]

\* Mutant of addItem: a rejection is neither counted nor reported.
addItemRejectsSilently(w, item) ==
  LET full == Len(w.items) >= QueueMaxSize
      w1 == IF full
              THEN [w EXCEPT !.batch[item.batch].rejected = @ \cup {item.pos}]
              ELSE LET a == onItemsChange(
                              [w EXCEPT !.items = Append(@, item),
                                        !.batch[item.batch].accepted = @ + 1])
                   IN IF a.pendingTick THEN a ELSE tick(a)
      rec == [sizeBefore |-> Len(w.items), rejBefore |-> w.rejectionCount,
              sizeAfterAppend |-> IF full THEN Len(w.items)
                                          ELSE Len(w.items) + 1,
              sizeAfter |-> Len(w1.items), rejAfter |-> w1.rejectionCount,
              accepted |-> ~full, onReject |-> FALSE]
  IN [w1 EXCEPT !.enqLog = Append(@, rec)]

\* Queuer.addItem: reject when full (count the rejection, call onReject),
\* else append, notify, and tick when no tick is pending.
addItem(w, item) ==
  LET full == Len(w.items) >= QueueMaxSize
      w1 == IF full
              THEN [w EXCEPT !.rejectionCount = @ + 1,
                             !.batch[item.batch].rejected = @ \cup {item.pos}]
              ELSE LET a == onItemsChange(
                              [w EXCEPT !.items = Append(@, item),
                                        !.batch[item.batch].accepted = @ + 1])
                   IN IF a.pendingTick THEN a ELSE tick(a)
      rec == [sizeBefore |-> Len(w.items), rejBefore |-> w.rejectionCount,
              sizeAfterAppend |-> IF full THEN Len(w.items)
                                          ELSE Len(w.items) + 1,
              sizeAfter |-> Len(w1.items), rejAfter |-> w1.rejectionCount,
              accepted |-> ~full, onReject |-> full]
  IN [w1 EXCEPT !.enqLog = Append(@, rec)]

\* for (const post of limitedRssList) queue.addItem(...)
RECURSIVE addAll(_, _, _, _)
addAll(w, b, keys, i) ==
  IF i > Len(keys) THEN w
  ELSE addAll(addItem(w, [batch |-> b, pos |-> i, key |-> keys[i]]),
              b, keys, i + 1)

\* ------------------------------------------------------------------------
\* Post repository
\* ------------------------------------------------------------------------
\* checkPostExists(sourceLink, sourceKey)
checkPostExists(k) == posts[k] > 0

\* The posts table declares no unique constraint on source_link/source_key:
\* its only key is the generated id, so an insert never conflicts.
PostInsertConflicts(k) == FALSE

\* createPostIfNotExists: insert ... onConflictDoNothing().returning()
createPostIfNotExists(k) ==
  IF PostInsertConflicts(k) THEN posts ELSE [posts EXCEPT ![k] = @ + 1]

\* ------------------------------------------------------------------------
\* Actions
\* ------------------------------------------------------------------------
\* The handler modules with a connector queue.
Variants == {"rss", "spotify"}

\* What the sync function gets from a source with n items: syncRss parses
\* the whole feed; syncSpotify asks the API for at most DEFAULT_MAX_ITEMS
\* albums (fetchNewReleases, limit parameter).
FetchItems(n, variant) ==
  IF variant = "spotify" THEN Slice(Feed(n), DEFAULT_MAX_ITEMS) ELSE Feed(n)

\* The return statements of syncRss and syncSpotify: without items the
\* result is the literal {totalItems, queued: 0, queueSize: 0, processed:
\* 0}; else it reads the size and the executionCount of the queue. The
\* state of the queue at the return is logged beside the result.
Return(w, b, totalItems, queuedCount) ==
  [w EXCEPT !.retLog =
     <<[batch |-> b,
        result |-> IF queuedCount = 0
                     THEN [totalItems |-> totalItems, queued |-> 0,
                           queueSize |-> 0, processed |-> 0]
                     ELSE [totalItems |-> totalItems, queued |-> queuedCount,
                           queueSize |-> Len(w.items),
                           processed |-> w.executionCount],
        size |-> Len(w.items), executionCount |-> w.executionCount]>>]

NewBatch(n, size, cb) ==
  [n |-> n, size |-> size, cb |-> cb, accepted |-> 0, started |-> 0,
   finished |-> 0, failedPos |-> {}, created |-> 0, rejected |-> {},
   startedPos |-> {}, variant |-> "none", upstream |-> 0]

NoBatch == NewBatch(0, 0, "none")

Connectors == 1..NumConnectors

\* A connectors row with active = false (its connector_type is that of
\* connector 1), and an id that is not in the table.
InactiveConnector == 4 * NumConnectors + 1

NoSuchConnector == 0

AllConnectors == Connectors \cup {InactiveConnector}

\* lastSyncTimes.get(connector.id) is undefined.
NoTime == -1

\* A string is the sequence of its tokens: a brace, a comma, white space, or
\* a word. Inside a JSON object a word stands for a member with that key
\* ("RssJsonLd": {...}); elsewhere it is plain text.
Words == {"RssJsonLd", "spotify", "podcast"}

\* rssConnectorHandler (type "RssJsonLd") and spotifyConnectorHandler (type
\* "spotify"); name tells two handlers of one type apart.
rssConnectorHandler == [type |-> <<"RssJsonLd">>, name |-> "RSS Feed"]

spotifyConnectorHandler ==
  [type |-> <<"spotify">>, name |-> "Spotify New Releases"]

\* The registry when initializeSyncScheduler is called: the RSS and the
\* Spotify module have registered their handler.
StartupRegistry == {rssConnectorHandler, spotifyConnectorHandler}

\* getInterestsForDepth has not run for a depth.
NoDepthLog == [queried |-> FALSE, filtered |-> FALSE, parents |-> {},
               offered |-> {}, aiCalled |-> FALSE, text |-> <<>>]

enrichVars == <<aiChecked, isDeleted, chosen, gifs, links, done, passed>>

interestVars == <<interestStore, depthPc, selected, depthLog>>

\* State of the parts of the server a queue step does not touch.
schedVars == <<clock, lastSyncTimes, ticks, dispatches>>

\* The connector registry and the manual sync calls.
lateVars == <<connectorRegistry, registrations, parseLog, manual>>

auxVars == <<interestVars, topicSuggestion, gifSearches, searched, schedVars,
             lateVars>>

\* Batches that were submitted and have accepted items not yet finished.
Draining == {b \in 1..(nextBatch - 1) : batch[b].finished < batch[b].accepted}

Commit(w) ==
  /\ items' = w.items
  /\ executionCount' = w.executionCount
  /\ rejectionCount' = w.rejectionCount
  /\ pendingTick' = w.pendingTick
  /\ elapsed' = w.elapsed
  /\ activeSyncJob' = w.activeSyncJob
  /\ handlers' = w.handlers
  /\ calls' = w.calls
  /\ batch' = w.batch
  /\ evLog' = w.evLog
  /\ enqLog' = w.enqLog
  /\ retLog' = w.retLog

\* syncRss / syncSpotify for a source with n items, from the fetch to the
\* return: without items return at once; else arm the tracker when a
\* callback was passed, add the first maxItems items and return the
\* result. The queue of a run belongs to one handler module; the module is
\* kept for a call only when it shows (more items upstream than the limit).
Sync(n, cb, variant) ==
  /\ nextBatch <= MaxSyncs
  /\ pendingTick \/ Cardinality(handlers) < MaxInFlight
  /\ \A c \in 1..(nextBatch - 1) : batch[c].variant \in {variant, "none"}
  /\ LET b == nextBatch
         found == FetchItems(n, variant)
         totalItems == Len(found)
         limited == Slice(found, DEFAULT_MAX_ITEMS)
         w0 == [World EXCEPT
                  !.batch[b] = [NewBatch(totalItems, Len(limited), cb)
                                  EXCEPT !.variant =
                                           IF n > DEFAULT_MAX_ITEMS
                                             THEN variant ELSE "none",
                                         !.upstream = n]]
         w1 == IF cb # "none"
                 THEN [w0 EXCEPT !.activeSyncJob =
                         [armed |-> TRUE, batch |-> b,
                          queuedCount |-> Len(limited),
                          totalItems |-> totalItems,
                          startExecutionCount |-> w0.executionCount]]
                 ELSE w0
     IN IF Len(limited) = 0
          THEN Commit(Return(w0, b, totalItems, 0))
          ELSE Commit(Return(addAll(w1, b, limited, 1), b, totalItems,
                             Len(limited)))
  /\ nextBatch' = nextBatch + 1
  /\ disturbed' = disturbed \cup Draining
  /\ overwrites' = IF cb # "none" /\ n > 0 /\ activeSyncJob.armed
                     THEN overwrites \cup {<<activeSyncJob.batch, nextBatch>>}
                     ELSE overwrites
  /\ UNCHANGED <<auxVars, posts, enrichVars>>

\* syncRss when the config has no url or the fetch or parse throws: the
\* catch block clears activeSyncJob and rethrows.
SyncFail ==
  /\ nextBatch <= MaxSyncs
  /\ Commit([World EXCEPT !.activeSyncJob = NoJob,
                          !.batch[nextBatch] = NewBatch(0, 0, "none")])
  /\ nextBatch' = nextBatch + 1
  /\ disturbed' = disturbed \cup Draining
  /\ UNCHANGED <<auxVars, posts, overwrites, enrichVars>>

\* Time passes while the wait timer runs.
TimePasses ==
  /\ pendingTick /\ elapsed < WAIT_MS
  /\ Commit([World EXCEPT !.elapsed = @ + 1])
  /\ UNCHANGED <<auxVars, posts, nextBatch, disturbed, overwrites, enrichVars>>

\* Mutant of TimerFire: the timer expires before the wait is over.
TimerFireEarly ==
  /\ pendingTick
  /\ Len(items) = 0 \/ Cardinality(handlers) < MaxInFlight
  /\ Commit(tick(World))
  /\ UNCHANGED <<auxVars, posts, nextBatch, disturbed, overwrites, enrichVars>>

\* Mutant of TimerFire: a handler failure stops the queue.
TimerFireStopsOnFailure ==
  /\ pendingTick /\ elapsed = WAIT_MS
  /\ \A b \in Batches : batch[b].failedPos = {}
  /\ Len(items) = 0 \/ Cardinality(handlers) < MaxInFlight
  /\ Commit(tick(World))
  /\ UNCHANGED <<auxVars, posts, nextBatch, disturbed, overwrites, enrichVars>>

\* The wait timer set by tick expires, WAIT_MS after it was set or later.
TimerFire ==
  /\ pendingTick /\ elapsed = WAIT_MS
  /\ Len(items) = 0 \/ Cardinality(handlers) < MaxInFlight
  /\ Commit(tick(World))
  /\ UNCHANGED <<auxVars, posts, nextBatch, disturbed, overwrites, enrichVars>>

Finish(h) ==
  Commit([World EXCEPT !.handlers = @ \ {h},
                       !.batch[h.batch].finished = @ + 1])

Advance(h, pc) ==
  Commit([World EXCEPT !.handlers = (@ \ {h}) \cup {[h EXCEPT !.pc = pc]}])

\* buildPostData: the existence check returns; an existing post ends the
\* item ("Skipped"), and so does a page without content (content = FALSE:
\* extractContentFromHTML returned null).
HandlerCheck(h, content) ==
  /\ h \in handlers /\ h.pc = "start"
  /\ IF checkPostExists(h.key) \/ ~content
       THEN Finish(h)
       ELSE Advance(h, "insert")
  /\ UNCHANGED <<auxVars, posts, nextBatch, disturbed, overwrites, enrichVars>>

\* createPostIfNotExists(postData) returns.
HandlerInsert(h) ==
  /\ h \in handlers /\ h.pc = "insert"
  /\ posts' = createPostIfNotExists(h.key)
  /\ Commit([World EXCEPT !.handlers = @ \ {h},
                          !.batch[h.batch].finished = @ + 1,
                          !.batch[h.batch].created =
                            @ + (createPostIfNotExists(h.key)[h.key]
                                   - posts[h.key])])
  /\ UNCHANGED <<auxVars, nextBatch, disturbed, overwrites, enrichVars>>

\* Mutant of HandlerError: the failed item is put back into the queue.
HandlerErrorRequeues(h) ==
  /\ h \in handlers /\ h.pc = "insert"
  /\ Commit([World EXCEPT !.handlers = @ \ {h},
                          !.batch[h.batch].finished = @ + 1,
                          !.batch[h.batch].failedPos = @ \cup {h.pos},
                          !.items = Append(@, [batch |-> h.batch,
                                               pos |-> h.pos, key |-> h.key])])
  /\ UNCHANGED <<auxVars, posts, nextBatch, disturbed, overwrites, enrichVars>>

\* The insert throws (store failure): the handler's catch logs the error.
HandlerError(h) ==
  /\ h \in handlers /\ h.pc = "insert"
  /\ Commit([World EXCEPT !.handlers = @ \ {h},
                          !.batch[h.batch].finished = @ + 1,
                          !.batch[h.batch].failedPos = @ \cup {h.pos}])
  /\ UNCHANGED <<auxVars, posts, nextBatch, disturbed, overwrites, enrichVars>>

\* The posts table of the enrichment pipeline with the posts P, none of
\* them enriched or deleted, and no link.
InitTables(P) ==
  /\ aiChecked = [p \in P |-> FALSE]
  /\ isDeleted = [p \in P |-> FALSE]
  /\ links = [p \in P |-> [i \in Interests |-> 0]]

InitRest ==
  /\ items = <<>>
  /\ executionCount = 0
  /\ rejectionCount = 0
  /\ pendingTick = FALSE
  /\ elapsed = WAIT_MS
  /\ activeSyncJob = NoJob
  /\ handlers = {}
  /\ posts = [k \in Keys |-> 0]
  /\ calls = <<>>
  /\ batch = [b \in Batches |-> NoBatch]
  /\ nextBatch = 1
  /\ disturbed = {}
  /\ overwrites = {}
  /\ evLog = <<>>
  /\ enqLog = <<>>
  /\ retLog = <<>>
  /\ chosen = {}
  /\ gifs = {}
  /\ done = {}
  /\ passed = {}
  /\ interestStore = {}
  /\ depthPc = 0
  /\ selected = [d \in 1..3 |-> <<>>]
  /\ depthLog = [d \in 1..3 |-> NoDepthLog]
  /\ topicSuggestion = <<>>
  /\ gifSearches = <<>>
  /\ searched = FALSE
  /\ clock = 0
  /\ lastSyncTimes = [c \in AllConnectors |-> NoTime]
  /\ ticks = <<>>
  /\ dispatches = <<>>
  /\ connectorRegistry = StartupRegistry
  /\ registrations = <<>>
  /\ parseLog = <<>>
  /\ manual = <<>>

Init == InitRest /\ InitTables(PostIds)

Next ==
  \/ \E n \in 0..MaxFeed, cb \in CallbackKinds, variant \in Variants :
       Sync(n, cb, variant)
  \/ SyncFail
  \/ TimePasses
  \/ TimerFire
  \/ \E h \in handlers, content \in BOOLEAN : HandlerCheck(h, content)
  \/ \E h \in handlers : HandlerInsert(h)
  \/ \E h \in handlers : HandlerError(h)

vars == <<items, executionCount, rejectionCount, pendingTick, elapsed,
          activeSyncJob,
          handlers, posts, calls, batch, nextBatch, disturbed, overwrites,
          evLog, enqLog, retLog, aiChecked, isDeleted, chosen, gifs, links, done,
          passed,
          interestStore, depthPc, selected, depthLog, topicSuggestion,
          gifSearches, searched, clock, lastSyncTimes, ticks, dispatches,
          connectorRegistry, registrations, parseLog, manual>>

Spec == Init /\ [][Next]_vars

\* A step of some per-item handler that is running.
HandlerStep ==
  \E h \in handlers :
    \/ \E content \in BOOLEAN : HandlerCheck(h, content)
    \/ HandlerInsert(h)
    \/ HandlerError(h)

\* The event loop runs a timer that is due and settles the promises of the
\* handlers: time passes, the wait timer fires, and a running handler
\* takes its next step.
Fairness ==
  /\ WF_vars(TimePasses)
  /\ WF_vars(TimerFire)
  /\ WF_vars(HandlerStep)

\* The queue with sync calls that pass no callback and find at least one
\* item, under the fairness of the event loop.
NextDrain ==
  \/ \E n \in 1..MaxFeed : Sync(n, "none", "rss")
  \/ TimePasses
  \/ TimerFire
  \/ \E h \in handlers, content \in BOOLEAN : HandlerCheck(h, content)
  \/ \E h \in handlers : HandlerInsert(h)
  \/ \E h \in handlers : HandlerError(h)

SpecDrain == Init /\ [][NextDrain]_vars /\ Fairness

\* ------------------------------------------------------------------------
\* Enrichment pipeline (post-enrichment.service.ts, gif.service.ts)
\* ------------------------------------------------------------------------
\* getUnenrichedPosts(limit): posts with ai_checked unset and is_deleted
\* false, newest first (a larger id is a later created_date).
RECURSIVE NewestFirst(_)
NewestFirst(S) ==
  IF S = {} THEN <<>>
  ELSE LET m == CHOOSE x \in S : \A y \in S : y <= x
       IN <<m>> \o NewestFirst(S \ {m})

\* Mutant of getUnenrichedPosts: deleted posts are selected too.
getUnenrichedPostsWithDeleted(limit) ==
  Slice(NewestFirst({p \in DOMAIN aiChecked : ~aiChecked[p]}), limit)

getUnenrichedPosts(limit) ==
  Slice(NewestFirst({p \in DOMAIN aiChecked :
                       ~aiChecked[p] /\ ~isDeleted[p]}), limit)

\* getExistingGifUrls(urls)
getExistingGifUrls(urls) ==
  {u \in {urls[i] : i \in DOMAIN urls} : \E g \in gifs : g.url = u}

\* gifUrls.find((gifUrl) => !existingUrls.has(gifUrl)); NoUrl for undefined
RECURSIVE FindNew(_, _)
FindNew(urls, existing) ==
  IF urls = <<>> THEN NoUrl
  ELSE IF Head(urls) \notin existing THEN Head(urls)
  ELSE FindNew(Tail(urls), existing)

\* getGif: go through the searches in priority order; responses[i] is the
\* url list of search i (empty when it has no results or the request
\* fails). The first non-empty response decides.
RECURSIVE getGif(_)
getGif(responses) ==
  IF responses = <<>> THEN NoUrl
  ELSE LET gifUrls == Head(responses)
           firstNewGif == FindNew(gifUrls, getExistingGifUrls(gifUrls))
       IN IF Len(gifUrls) > 0
            THEN IF firstNewGif # NoUrl THEN firstNewGif ELSE gifUrls[1]
            ELSE getGif(Tail(responses))

\* getTopicAndGif: a failing topic call yields the empty url.
getTopicAndGif(topicOk, responses) ==
  IF topicOk THEN getGif(responses) ELSE NoUrl

\* Mutant of SkipsPost: a post without image is enriched all the same.
SkipsPostNever(url) == FALSE

\* enrichSinglePost: if (!gif.url) return null
SkipsPost(url) == url = NoUrl

\* The gifs table has unique(url) and unique(post_id); createGif is a plain
\* insert, so a duplicate makes it throw.
GifInsertConflicts(url, p) == \E g \in gifs : g.url = url \/ g.postId = p

\* Responses of the image searches for one topic.
UrlLists == {<<>>} \cup {<<u>> : u \in Urls}
              \cup {<<p[1], p[2]>> : p \in {q \in Urls \X Urls : q[1] # q[2]}}

RECURSIVE SeqsUpTo(_, _)
SeqsUpTo(S, n) ==
  IF n = 0 THEN {<<>>}
  ELSE LET shorter == SeqsUpTo(S, n - 1)
       IN shorter \cup {Append(q, x) : q \in {r \in shorter : Len(r) = n - 1},
                                       x \in S}

Responses == SeqsUpTo(UrlLists, MaxSearches)

EnrichDone(h, threw, marked) ==
  /\ done' = {[post |-> h.key, url |-> h.url,
                          intsCalled |-> h.intsCalled,
                          intsFailed |-> h.intsFailed,
                          wroteGif |-> h.wroteGif, wroteLinks |-> h.wroteLinks,
                          marked |-> marked, threw |-> threw]}
  /\ Finish(h)

Replace(h, g) ==
  Commit([World EXCEPT !.handlers = (@ \ {h}) \cup {g}])

\* The return statements of enrichPostsList: without posts the no-op
\* result {message, queued: 0}; else queued, the size and the
\* executionCount of the queue.
ReturnEnrich(w, b, queuedCount) ==
  [w EXCEPT !.retLog =
     <<[batch |-> b,
        result |-> IF queuedCount = 0
                     THEN [queued |-> 0]
                     ELSE [queued |-> queuedCount, queueSize |-> Len(w.items),
                           processed |-> w.executionCount],
        size |-> Len(w.items), executionCount |-> w.executionCount]>>]

\* enrichPostsList: select the unenriched posts; with none, return; else arm
\* the tracker when a callback was passed and add every post to the queue.
\* maxRuns is the number of calls of one run of the model.
EnrichRun(cb, maxRuns) ==
  /\ nextBatch <= maxRuns
  /\ pendingTick \/ Cardinality(handlers) < MaxInFlight
  /\ LET b == nextBatch
         postsToEnrich == getUnenrichedPosts(MAX_POSTS_PER_RUN)
         w0 == [World EXCEPT
                  !.batch[b] = NewBatch(Len(postsToEnrich),
                                        Len(postsToEnrich), cb)]
         w1 == IF cb # "none"
                 THEN [w0 EXCEPT !.activeSyncJob =
                         [armed |-> TRUE, batch |-> b,
                          queuedCount |-> Len(postsToEnrich),
                          totalItems |-> Len(postsToEnrich),
                          startExecutionCount |-> w0.executionCount]]
                 ELSE w0
     IN IF Len(postsToEnrich) = 0
          THEN Commit(ReturnEnrich(w0, b, 0))
          ELSE Commit(ReturnEnrich(addAll(w1, b, postsToEnrich, 1), b,
                                   Len(postsToEnrich)))
  /\ nextBatch' = nextBatch + 1
  /\ disturbed' = disturbed \cup Draining
  /\ overwrites' = IF cb # "none" /\ Len(getUnenrichedPosts(
                                            MAX_POSTS_PER_RUN)) > 0
                                  /\ activeSyncJob.armed
                     THEN overwrites \cup {<<activeSyncJob.batch, nextBatch>>}
                     ELSE overwrites
  /\ chosen' = chosen \cup {getUnenrichedPosts(MAX_POSTS_PER_RUN)[i] :
                              i \in 1..Len(getUnenrichedPosts(
                                             MAX_POSTS_PER_RUN))}
  /\ UNCHANGED <<auxVars, posts, aiChecked, isDeleted, gifs, links, done,
                 passed>>

Enrich(cb) == EnrichRun(cb, MaxRuns)

\* enrichSinglePost, phase 1: getTopicAndGif returns. Without url the post
\* is skipped: the handler returns.
EnrichGif(h, topicOk, responses) ==
  /\ h \in handlers /\ h.pc = "start"
  /\ topicOk \/ responses = <<>>
  /\ LET url == getTopicAndGif(topicOk, responses)
         g == [h EXCEPT !.url = url,
                        !.urlStored = \E x \in gifs : x.url = url]
     IN IF SkipsPost(g.url)
          THEN EnrichDone(g, FALSE, FALSE) /\ UNCHANGED passed
          ELSE /\ Replace(h, [g EXCEPT !.pc = "interests"])
               /\ passed' = passed \cup {h.key}
               /\ UNCHANGED done
  /\ UNCHANGED <<auxVars, posts, nextBatch, disturbed, overwrites, isDeleted, chosen,
                 aiChecked, gifs,
                 links>>

\* enrichSinglePost, phase 2: suggestInterestsForPost returns the suggested
\* ids, or [] when suggestInterests threw (ok = FALSE).
EnrichInterests(h, ok, ids) ==
  /\ h \in handlers /\ h.pc = "interests"
  /\ Replace(h, [h EXCEPT !.pc = "saveGif", !.intsCalled = TRUE,
                          !.intsFailed = ~ok,
                          !.ints = IF ok THEN ids ELSE {}])
  /\ UNCHANGED <<auxVars, posts, nextBatch, disturbed, overwrites, enrichVars>>

\* saveEnrichmentResult, step 1: createGif, skipped for an empty url. When
\* the insert throws, saveEnrichmentResult rethrows and the handler's catch
\* logs the error.
EnrichSaveGif(h) ==
  /\ h \in handlers /\ h.pc = "saveGif"
  /\ IF h.url = NoUrl
       THEN Replace(h, [h EXCEPT !.pc = "saveLinks"]) /\ UNCHANGED <<gifs, done>>
       ELSE IF GifInsertConflicts(h.url, h.key)
         THEN EnrichDone(h, TRUE, FALSE) /\ UNCHANGED gifs
         ELSE /\ gifs' = gifs \cup {[url |-> h.url, postId |-> h.key]}
              /\ Replace(h, [h EXCEPT !.pc = "saveLinks", !.wroteGif = TRUE])
              /\ UNCHANGED done
  /\ UNCHANGED <<auxVars, posts, nextBatch, disturbed, overwrites, isDeleted, chosen,
                 aiChecked, links,
                 passed>>

\* saveEnrichmentResult, step 2: linkPostToInterests, skipped when there
\* are no interests.
EnrichSaveLinks(h) ==
  /\ h \in handlers /\ h.pc = "saveLinks"
  /\ links' = [links EXCEPT ![h.key] =
                 [i \in Interests |-> IF i \in h.ints THEN @[i] + 1 ELSE @[i]]]
  /\ Replace(h, [h EXCEPT !.pc = "mark", !.wroteLinks = h.ints # {}])
  /\ UNCHANGED <<auxVars, posts, nextBatch, disturbed, overwrites, isDeleted, chosen,
                 aiChecked, gifs,
                 done, passed>>

\* Mutant of EnrichMark: the post is marked before the image insert.
EnrichMarkFirst(h) ==
  /\ h \in handlers /\ h.pc = "saveGif"
  /\ aiChecked' = [aiChecked EXCEPT ![h.key] = TRUE]
  /\ EnrichDone(h, FALSE, TRUE)
  /\ UNCHANGED <<auxVars, posts, nextBatch, disturbed, overwrites, isDeleted, chosen,
                 gifs, links,
                 passed>>

\* saveEnrichmentResult, step 3: markPostsAsEnriched([postId]).
EnrichMark(h) ==
  /\ h \in handlers /\ h.pc = "mark"
  /\ aiChecked' = [aiChecked EXCEPT ![h.key] = TRUE]
  /\ EnrichDone(h, FALSE, TRUE)
  /\ UNCHANGED <<auxVars, posts, nextBatch, disturbed, overwrites, isDeleted, chosen,
                 gifs, links,
                 passed>>

NextEnrich ==
  \/ \E cb \in {"none", "ok"} : Enrich(cb)
  \/ TimePasses
  \/ TimerFire
  \/ \E h \in handlers, topicOk \in BOOLEAN, r \in Responses :
       EnrichGif(h, topicOk, r)
  \/ \E h \in handlers, ok \in BOOLEAN, ids \in SUBSET Interests :
       EnrichInterests(h, ok, ids)
  \/ \E h \in handlers : EnrichSaveGif(h)
  \/ \E h \in handlers : EnrichSaveLinks(h)
  \/ \E h \in handlers : EnrichMark(h)

SpecEnrich == Init /\ [][NextEnrich]_vars

\* ------------------------------------------------------------------------
\* Interest suggestion (interest.service.ts)
\* ------------------------------------------------------------------------
\* The interests table: mains 1..NumMain, then their subs, then the subsubs.
InterestIds == 1..(3 * NumMain)

\* interests.depth: InterestsDepth Main = "1", Sub = "2", SubSub = "3"
DepthOf(i) == IF i <= NumMain THEN 1 ELSE IF i <= 2 * NumMain THEN 2 ELSE 3

\* interests.parent_id (none for a main interest)
ParentOf(i) == IF i <= NumMain THEN 0 ELSE i - NumMain

\* A line of an AI response that is no id of the table.
NoSuchId == 0

\* result.text.trim().split("\n").map(trim): the lines of an AI response.
AiTexts == SeqsUpTo(InterestIds \cup {NoSuchId}, MaxLines)

Range(q) == {q[i] : i \in DOMAIN q}

\* getActiveInterestsByDepth(depth, parentIds): the parent filter is added
\* when parentIds is given (hasParentIds) and not empty.
getActiveInterestsByDepth(depth, hasParentIds, parentIds) ==
  {i \in interestStore :
     /\ DepthOf(i) = depth
     /\ (hasParentIds /\ Len(parentIds) > 0) => ParentOf(i) \in Range(parentIds)}

\* Mutant of FilterValid: every line of the response is kept.
FilterValidKeepsAll(lines, validIds) == lines

\* .filter((id) => validIds.has(id))
FilterValid(lines, validIds) == SelectSeq(lines, LAMBDA id : id \in validIds)

\* Mutant of getInterestsForDepth: no early return for empty parentIds.
getInterestsForDepthNoSkip(depth, parentIds, text) ==
  LET hasParentIds == depth # 1
      dbInterests == getActiveInterestsByDepth(depth, hasParentIds, parentIds)
      log == [queried |-> TRUE,
              filtered |-> hasParentIds /\ Len(parentIds) > 0,
              parents |-> IF hasParentIds THEN Range(parentIds) ELSE {},
              offered |-> dbInterests, aiCalled |-> dbInterests # {},
              text |-> IF dbInterests # {} THEN text ELSE <<>>]
  IN [log |-> log,
      ids |-> IF dbInterests = {} THEN <<>>
              ELSE FilterValid(text, dbInterests)]

\* getInterestsForDepth(depth, parentIds, userMsg), text being the lines the
\* AI call returns if it is made: the record of what was done and the ids
\* returned.
getInterestsForDepth(depth, parentIds, text) ==
  IF Len(parentIds) = 0 /\ depth # 1
    THEN [log |-> NoDepthLog, ids |-> <<>>]
    ELSE LET hasParentIds == depth # 1
             dbInterests ==
               getActiveInterestsByDepth(depth, hasParentIds, parentIds)
             log == [queried |-> TRUE,
                     filtered |-> hasParentIds /\ Len(parentIds) > 0,
                     parents |-> IF hasParentIds THEN Range(parentIds) ELSE {},
                     offered |-> dbInterests, aiCalled |-> dbInterests # {},
                     text |-> IF dbInterests # {} THEN text ELSE <<>>]
         IN [log |-> log,
             ids |-> IF dbInterests = {} THEN <<>>
                     ELSE FilterValid(text, dbInterests)]

queueVars == <<items, executionCount, rejectionCount, pendingTick, elapsed,
               activeSyncJob, handlers, posts, calls, batch, nextBatch,
               disturbed, overwrites, evLog, enqLog, retLog>>

searchVars == <<topicSuggestion, gifSearches, searched>>

\* The contents of the interests table tried: all interests active, or all
\* but one or two.
InterestStores ==
  {InterestIds \ off : off \in {x \in SUBSET InterestIds : Cardinality(x) <= 2}}

\* suggestInterests is called while the interests table holds the active
\* interests `active`.
SuggestStart(active) ==
  /\ depthPc = 0
  /\ interestStore' = active
  /\ depthPc' = 1
  /\ UNCHANGED <<selected, depthLog, queueVars, enrichVars, lateVars, searchVars,
                 schedVars>>

\* suggestInterests: one await getInterestsForDepth(...) returns.
SuggestDepth(text) ==
  /\ depthPc \in 1..3
  /\ LET parentIds == IF depthPc = 1 THEN <<>> ELSE selected[depthPc - 1]
         r == getInterestsForDepth(depthPc, parentIds, text)
     IN /\ r.log.aiCalled \/ text = <<>>
        /\ selected' = [selected EXCEPT ![depthPc] = r.ids]
        /\ depthLog' = [d \in 1..3 |->
                          IF d = depthPc THEN r.log
                          ELSE [depthLog[d] EXCEPT !.text = <<>>]]
  /\ depthPc' = depthPc + 1
  /\ UNCHANGED <<interestStore, queueVars, enrichVars, lateVars, searchVars,
                 schedVars>>

\* suggestInterests: the store query or the AI call of the current depth
\* throws; the catch logs and rethrows.
SuggestThrow ==
  /\ depthPc \in 1..3
  /\ IF depthPc = 1 THEN TRUE ELSE selected[depthPc - 1] # <<>>
  /\ depthPc' = 5
  /\ UNCHANGED <<interestStore, selected, depthLog, queueVars, enrichVars, lateVars,
                 searchVars,
                 schedVars>>

NextInterests ==
  \/ \E active \in InterestStores : SuggestStart(active)
  \/ \E text \in AiTexts : SuggestDepth(text)
  \/ SuggestThrow

SpecInterests == Init /\ [][NextInterests]_vars

\* ------------------------------------------------------------------------
\* Search computation (gif.service.ts, gif.constants.ts)
\* ------------------------------------------------------------------------
\* SEARCH_MAPPINGS: the priority of each area.
SEARCH_MAPPINGS ==
  [a \in {"Brand", "Product", "Event", "Action", "Sports team", "Celebrity",
          "Location", "Emotion", "Weather", "Other"} |->
     CASE a = "Brand" -> 1 [] a = "Product" -> 2 [] a = "Event" -> 3
       [] a = "Action" -> 4 [] a = "Sports team" -> 5 [] a = "Celebrity" -> 6
       [] a = "Location" -> 7 [] a = "Emotion" -> 8 [] a = "Weather" -> 9
       [] a = "Other" -> 10]

\* SEARCH_MAPPINGS is an object literal: an index expression also finds the
\* members it inherits from Object.prototype, and those are truthy.
ObjectPrototypeKeys == {"constructor", "toString", "valueOf"}

\* config.priority of a value that has no such member (undefined).
NoPriority == 0

\* Areas and keywords of the topic lines tried; "" is an empty keyword as
\* in "Brand: a,, b".
TopicAreas == {"Brand", "Emotion", "Weather", "Mood", "constructor"}

Keywords == {"a", "b", ""}

\* A topic line: the text before the first colon and, when there is a
\* colon, the comma-separated parts after it.
TopicLines ==
  [area : TopicAreas, hasColon : {TRUE},
   keywords : SeqsUpTo(Keywords, MaxKeywords)]
  \cup [area : TopicAreas, hasColon : {FALSE}, keywords : {<<>>}]

\* topicSuggestion.split("\n") has at least one element.
Topics == SeqsUpTo(TopicLines, MaxTopicLines) \ {<<>>}

\* parseTopicLine(line): [area, keywords], empty keywords dropped.
parseTopicLine(line) ==
  [area |-> line.area,
   keywords |-> IF line.hasColon
                  THEN SelectSeq(line.keywords, LAMBDA k : k # "")
                  ELSE <<>>]

\* SEARCH_MAPPINGS[area] and the test !config.
MappingLookup(area) ==
  IF area \in DOMAIN SEARCH_MAPPINGS
    THEN [found |-> TRUE, priority |-> SEARCH_MAPPINGS[area]]
    ELSE [found |-> area \in ObjectPrototypeKeys, priority |-> NoPriority]

\* createSearchFromArea(area, keyword): <<>> for null, else one entry
\* [priority, search].
createSearchFromArea(area, keyword) ==
  LET config == MappingLookup(area)
  IN IF ~config.found THEN <<>>
     ELSE <<[priority |-> config.priority,
             search |-> [area |-> area, keyword |-> keyword]]>>

\* .flatMap(([area, keywords]) => keywords.map(createSearchFromArea))
\* .filter(entry !== null), for the lines from i on.
RECURSIVE KeywordEntries(_, _, _)
KeywordEntries(area, keywords, i) ==
  IF i > Len(keywords) THEN <<>>
  ELSE createSearchFromArea(area, keywords[i])
         \o KeywordEntries(area, keywords, i + 1)

RECURSIVE Entries(_, _)
Entries(lines, i) ==
  IF i > Len(lines) THEN <<>>
  ELSE LET parsed == parseTopicLine(lines[i])
       IN KeywordEntries(parsed.area, parsed.keywords, 1)
            \o Entries(lines, i + 1)

\* The keys of the Map built by reduce.
PriorityKeys(entries) == {entries[i].priority : i \in DOMAIN entries}

\* .sort(([a], [b]) => a - b) on the Map entries: ascending when every key
\* is a number. With an undefined key a - b is NaN, the comparator is not
\* consistent and the order is whatever the engine produces.
SortResults(keys) ==
  {order \in [1..Cardinality(keys) -> keys] :
     /\ \A i, j \in DOMAIN order : i # j => order[i] # order[j]
     /\ NoPriority \notin keys =>
          \A i, j \in DOMAIN order : i < j => order[i] < order[j]}

\* .flatMap(([_, searches]) => searches): the searches of each key in
\* their input order, keys in the sorted order.
RECURSIVE FlattenGroups(_, _, _)
FlattenGroups(entries, order, i) ==
  IF i > Len(order) THEN <<>>
  ELSE LET group == SelectSeq(entries, LAMBDA e : e.priority = order[i])
       IN [k \in DOMAIN group |-> group[k].search]
            \o FlattenGroups(entries, order, i + 1)

\* computeGifSearches(topicSuggestion), order being the outcome of sort.
computeGifSearches(topic, order) ==
  /\ ~searched
  /\ order \in SortResults(PriorityKeys(Entries(topic, 1)))
  /\ topicSuggestion' = topic
  /\ gifSearches' = FlattenGroups(Entries(topic, 1), order, 1)
  /\ searched' = TRUE
  /\ UNCHANGED <<queueVars, enrichVars, lateVars, interestVars, schedVars>>

NextSearches ==
  \E topic \in Topics :
    \E order \in SortResults(PriorityKeys(Entries(topic, 1))) :
      computeGifSearches(topic, order)

SpecSearches == Init /\ [][NextSearches]_vars

\* ------------------------------------------------------------------------
\* Sync scheduler (sync.scheduler.ts, connector.registry.ts)
\* ------------------------------------------------------------------------
\* null, for a string.
Null == <<"null">>

\* undefined, for a handler.
NoHandler == [type |-> <<>>, name |-> "undefined"]

\* The active rows of the connectors table, in the order findMany returns
\* them: connector_type is a JSON object with a registered key, null, the
\* name of a type no handler is registered for, or the plain name of a
\* registered type, in turn.
connectorType(c) ==
  CASE c % 4 = 1 -> <<"{", "RssJsonLd", "}">>
    [] c % 4 = 2 -> Null
    [] c % 4 = 3 -> <<"podcast">>
    [] OTHER -> <<"RssJsonLd">>

\* connectors.fetch_period_minutes; 0 for null.
fetchPeriodMinutes(c) == IF c % 4 = 0 THEN 1 ELSE 0

\* JSON.parse skips the white space between the tokens of a text.
StripSpace(json) == SelectSeq(json, LAMBDA t : t # " ")

\* The members of an object text without white space, from token i on:
\* words separated by commas, then the closing brace at the end of the
\* text. Null when the text is no JSON.
RECURSIVE JsonMembers(_, _)
JsonMembers(t, i) ==
  IF i + 1 > Len(t) \/ t[i] \notin Words THEN Null
  ELSE IF i + 1 = Len(t)
    THEN (IF t[i + 1] = "}" THEN <<t[i]>> ELSE Null)
  ELSE IF t[i + 1] # "," THEN Null
  ELSE LET rest == JsonMembers(t, i + 2)
       IN IF rest = Null THEN Null ELSE <<t[i]>> \o rest

\* Object.keys(JSON.parse(json)) for a text whose first token after white
\* space is "{": the keys in the order of the text, or Null when JSON.parse
\* throws.
JsonKeys(json) ==
  LET t == StripSpace(json)
  IN IF Len(t) < 2 \/ t[1] # "{" THEN Null
     ELSE IF t = <<"{", "}">> THEN <<>>
     ELSE JsonMembers(t, 2)

\* parseConnectorType: null for null and "", the string itself when it does
\* not start with "{", else the first key of the parsed object, or null
\* when there is none or the text does not parse.
parseConnectorType(connectorTypeJson) ==
  IF connectorTypeJson = Null \/ connectorTypeJson = <<>> THEN Null
  ELSE IF connectorTypeJson[1] # "{" THEN connectorTypeJson
  ELSE LET keys == JsonKeys(connectorTypeJson)
       IN IF keys = Null THEN Null
          ELSE IF Len(keys) > 0 THEN <<keys[1]>> ELSE Null

\* getConnectorHandler(type): connectorRegistry.get(type)
getConnectorHandler(type) ==
  IF \E h \in connectorRegistry : h.type = type
    THEN CHOOSE h \in connectorRegistry : h.type = type
    ELSE NoHandler

\* (connector.fetchPeriodMinutes || 60), in minutes.
FetchPeriod(c) ==
  IF fetchPeriodMinutes(c) # 0 THEN fetchPeriodMinutes(c)
  ELSE DEFAULT_FETCH_PERIOD

\* Mutant of IsDue: the period is not looked at.
IsDueAlways(now, lastSync, c) == TRUE

\* Lines 148-157: no lastSync, or the period has passed since it.
IsDue(now, lastSync, c) ==
  lastSync = NoTime \/ now - lastSync >= FetchPeriod(c)

\* The for loop of schedulerTick from connector i on, up to the next
\* handler.sync call or the end of the list; last is lastSyncTimes.
RECURSIVE RunLoop(_, _, _)
RunLoop(t, i, last) ==
  IF i > NumConnectors THEN [t EXCEPT !.pc = "done", !.idx = i]
  ELSE LET type == parseConnectorType(connectorType(i))
       IN IF type = Null
            THEN RunLoop([t EXCEPT !.seen[i] = "invalid"], i + 1, last)
          ELSE IF getConnectorHandler(type) = NoHandler
            THEN RunLoop([t EXCEPT !.seen[i] = "nohandler"], i + 1, last)
          ELSE IF ~IsDue(t.now, last[i], i)
            THEN RunLoop([t EXCEPT !.seen[i] = "notdue"], i + 1, last)
          ELSE [t EXCEPT !.seen[i] = "dispatched", !.pc = "sync", !.idx = i,
                         !.lastSeen = last[i]]

\* The tick t goes on from connector i; when it reaches a handler.sync
\* call, the call is logged. ds is the dispatch log so far.
Continue(k, t, i, last, ds) ==
  LET u == RunLoop(t, i, last)
      d == [connector |-> u.idx, tick |-> k, now |-> u.now, at |-> clock,
            lastSeen |-> u.lastSeen, outcome |-> "pending",
            lastBefore |-> NoTime, lastAfter |-> NoTime]
  IN IF u.pc = "sync"
       THEN /\ ticks' = [ticks EXCEPT ![k] = [u EXCEPT !.d = Len(ds) + 1]]
            /\ dispatches' = Append(ds, d)
       ELSE /\ ticks' = [ticks EXCEPT ![k] = u]
            /\ dispatches' = ds

\* A tick that has not run yet, in a process with NODE_ENV = nodeEnv.
NewTick(now, pc, nodeEnv) ==
  [now |-> now, pc |-> pc, idx |-> 0, d |-> 0, lastSeen |-> NoTime,
   failedSyncs |-> 0, seen |-> [c \in Connectors |-> "none"],
   nodeEnv |-> nodeEnv]

\* Mutant of ReturnsAtOnce: the tick runs in every environment.
ReturnsAtOnceNever(nodeEnv) == FALSE

\* Lines 122-124: NODE_ENV is local or development.
ReturnsAtOnce(nodeEnv) == nodeEnv \in {"local", "development"}

\* cron fires schedulerTick at the next minute, whether or not an earlier
\* tick is still running. With NODE_ENV local or development the tick
\* returns at once (NODE_ENV is the same for every tick of a process).
\* Else it takes now and queries the active connectors: when the query
\* throws, the outer catch logs "Scheduler tick failed"; else the loop runs
\* up to its first handler.sync call.
CronFire(nodeEnv, queryOk) ==
  /\ clock < MaxTicks
  /\ \A k \in DOMAIN ticks : ticks[k].nodeEnv = nodeEnv
  /\ clock' = clock + 1
  /\ LET k == clock + 1
         returnsAtOnce == ReturnsAtOnce(nodeEnv)
     IN IF returnsAtOnce \/ ~queryOk
          THEN /\ ticks' = Append(ticks,
                             NewTick(k, IF returnsAtOnce THEN "skipped"
                                        ELSE "failed", nodeEnv))
               /\ dispatches' = dispatches
          ELSE LET u == RunLoop(NewTick(k, "query", nodeEnv), 1,
                                lastSyncTimes)
                   d == [connector |-> u.idx, tick |-> k, now |-> k, at |-> k,
                         lastSeen |-> u.lastSeen, outcome |-> "pending",
                         lastBefore |-> NoTime, lastAfter |-> NoTime]
               IN IF u.pc = "sync"
                    THEN /\ ticks' =
                              Append(ticks,
                                     [u EXCEPT !.d = Len(dispatches) + 1])
                         /\ dispatches' = Append(dispatches, d)
                    ELSE /\ ticks' = Append(ticks, u)
                         /\ dispatches' = dispatches
  /\ UNCHANGED <<lastSyncTimes, queueVars, enrichVars, lateVars, interestVars,
                 searchVars>>

\* await handler.sync(...) returns: lastSyncTimes.set(connector.id, now),
\* and the loop goes on.
SyncReturns(k) ==
  /\ k \in DOMAIN ticks /\ ticks[k].pc = "sync"
  /\ LET t == ticks[k]
         c == t.idx
         last == [lastSyncTimes EXCEPT ![c] = t.now]
         ds == [dispatches EXCEPT ![t.d].outcome = "ok",
                                  ![t.d].lastBefore = lastSyncTimes[c],
                                  ![t.d].lastAfter = last[c]]
     IN /\ lastSyncTimes' = last
        /\ Continue(k, t, c + 1, last, ds)
  /\ UNCHANGED <<clock, queueVars, enrichVars, lateVars, interestVars, searchVars>>

\* Mutant of SyncFails: the failure ends the tick.
SyncFailsAbortsTick(k) ==
  /\ k \in DOMAIN ticks /\ ticks[k].pc = "sync"
  /\ LET t == ticks[k]
         c == t.idx
     IN /\ ticks' = [ticks EXCEPT ![k].pc = "done",
                                  ![k].failedSyncs = @ + 1]
        /\ dispatches' = [dispatches EXCEPT ![t.d].outcome = "failed",
                            ![t.d].lastBefore = lastSyncTimes[c],
                            ![t.d].lastAfter = lastSyncTimes[c]]
  /\ UNCHANGED <<clock, lastSyncTimes, queueVars, enrichVars, lateVars, interestVars,
                 searchVars>>

\* Mutant of SyncFails: the time is recorded for a failed sync too.
SyncFailsRecordsTime(k) ==
  /\ k \in DOMAIN ticks /\ ticks[k].pc = "sync"
  /\ LET t == ticks[k]
         c == t.idx
         last == [lastSyncTimes EXCEPT ![c] = t.now]
         ds == [dispatches EXCEPT ![t.d].outcome = "failed",
                                  ![t.d].lastBefore = lastSyncTimes[c],
                                  ![t.d].lastAfter = last[c]]
     IN /\ lastSyncTimes' = last
        /\ Continue(k, [t EXCEPT !.failedSyncs = @ + 1], c + 1, last, ds)
  /\ UNCHANGED <<clock, queueVars, enrichVars, lateVars, interestVars, searchVars>>

\* await handler.sync(...) throws: the inner catch logs the error and the
\* loop goes on with the next connector.
SyncFails(k) ==
  /\ k \in DOMAIN ticks /\ ticks[k].pc = "sync"
  /\ LET t == ticks[k]
         c == t.idx
         ds == [dispatches EXCEPT ![t.d].outcome = "failed",
                                  ![t.d].lastBefore = lastSyncTimes[c],
                                  ![t.d].lastAfter = lastSyncTimes[c]]
     IN Continue(k, [t EXCEPT !.failedSyncs = @ + 1], c + 1, lastSyncTimes,
                 ds)
  /\ UNCHANGED <<clock, lastSyncTimes, queueVars, enrichVars, lateVars, interestVars,
                 searchVars>>

NextScheduler ==
  \/ \E nodeEnv \in {"production", "development"}, queryOk \in BOOLEAN :
       CronFire(nodeEnv, queryOk)
  \/ \E k \in DOMAIN ticks : SyncReturns(k)
  \/ \E k \in DOMAIN ticks : SyncFails(k)

SpecScheduler == Init /\ [][NextScheduler]_vars

\* ------------------------------------------------------------------------
\* Manual sync (sync.scheduler.ts: syncConnectorById, syncConnectorsByType)
\* ------------------------------------------------------------------------
\* The types a manual sync is requested for.
RequestedTypes == {<<w>> : w \in Words}

\* A manual call: what it was asked, where it stands (pc "sync": awaiting
\* handler.sync for connector idx), the connectors it passed to
\* handler.sync and the results it holds.
NewManual(kind, id, type) ==
  [kind |-> kind, id |-> id, type |-> type, pc |-> "start", idx |-> 0,
   handler |-> NoHandler, syncs |-> <<>>, results |-> {}, at |-> clock,
   lastAtCall |-> NoTime, recorded |-> {}]

\* results.set(id, result)
MapSet(results, id, shape) ==
  {e \in results : e.id # id} \cup {[id |-> id, shape |-> shape]}

\* Mutant of ByIdResolve: a connector that is not due is not synced.
ByIdResolveDueOnly(m) ==
  LET type == IF m.id = NoSuchConnector THEN Null
              ELSE parseConnectorType(connectorType(m.id))
      handler == IF type = Null THEN NoHandler ELSE getConnectorHandler(type)
  IN IF m.id = NoSuchConnector \/ type = Null \/ handler = NoHandler
       THEN [m EXCEPT !.pc = "threw"]
     ELSE IF ~IsDue(clock, lastSyncTimes[m.id], m.id)
       THEN [m EXCEPT !.pc = "returned", !.handler = handler]
     ELSE [m EXCEPT !.pc = "sync", !.idx = m.id, !.handler = handler,
                    !.syncs = <<m.id>>, !.lastAtCall = lastSyncTimes[m.id]]

\* syncConnectorById up to its handler.sync call: throw when the row, its
\* type or the handler of the type is missing.
ByIdResolve(m) ==
  LET type == IF m.id = NoSuchConnector THEN Null
              ELSE parseConnectorType(connectorType(m.id))
      handler == IF type = Null THEN NoHandler ELSE getConnectorHandler(type)
  IN IF m.id = NoSuchConnector \/ type = Null \/ handler = NoHandler
       THEN [m EXCEPT !.pc = "threw"]
       ELSE [m EXCEPT !.pc = "sync", !.idx = m.id, !.handler = handler,
                      !.syncs = <<m.id>>, !.lastAtCall = lastSyncTimes[m.id]]

\* The for loop of syncConnectorsByType over the active connectors from
\* connector i on, up to the next handler.sync call or the return.
RECURSIVE ByTypeLoop(_, _)
ByTypeLoop(m, i) ==
  IF i > NumConnectors THEN [m EXCEPT !.pc = "returned", !.idx = i]
  ELSE IF parseConnectorType(connectorType(i)) # m.type
    THEN ByTypeLoop(m, i + 1)
  ELSE [m EXCEPT !.pc = "sync", !.idx = i, !.syncs = Append(@, i)]

\* syncConnectorById(connectorId)
syncConnectorById(id) ==
  /\ Len(manual) < MaxManual
  /\ manual' = Append(manual, ByIdResolve(NewManual("byId", id, Null)))
  /\ UNCHANGED <<schedVars, connectorRegistry, registrations, parseLog,
                 queueVars, enrichVars, interestVars, searchVars>>

\* syncConnectorsByType(connectorType): throw when no handler is registered
\* for the type, else query the active connectors and start the loop.
syncConnectorsByType(type) ==
  /\ Len(manual) < MaxManual
  /\ LET m == NewManual("byType", NoSuchConnector, type)
         handler == getConnectorHandler(type)
     IN manual' = Append(manual,
                         IF handler = NoHandler
                           THEN [m EXCEPT !.pc = "threw"]
                           ELSE ByTypeLoop([m EXCEPT !.handler = handler], 1))
  /\ UNCHANGED <<schedVars, connectorRegistry, registrations, parseLog,
                 queueVars, enrichVars, interestVars, searchVars>>

\* await handler.sync(...) of a manual call returns: the result is kept and
\* lastSyncTimes.set(connector.id, new Date()).
ManualSyncReturns(i) ==
  /\ i \in DOMAIN manual /\ manual[i].pc = "sync"
  /\ LET m == manual[i]
         n == [m EXCEPT !.results = MapSet(@, m.idx, "result"),
                        !.recorded = @ \cup {<<m.idx, clock>>}]
     IN /\ lastSyncTimes' = [lastSyncTimes EXCEPT ![m.idx] = clock]
        /\ manual' = [manual EXCEPT ![i] =
                        IF m.kind = "byId" THEN [n EXCEPT !.pc = "returned"]
                        ELSE ByTypeLoop(n, m.idx + 1)]
  /\ UNCHANGED <<clock, ticks, dispatches, connectorRegistry, registrations,
                 parseLog, queueVars, enrichVars, interestVars, searchVars>>

\* Mutant of ManualSyncFails: syncConnectorsByType throws as well.
ManualSyncFailsAborts(i) ==
  /\ i \in DOMAIN manual /\ manual[i].pc = "sync"
  /\ manual' = [manual EXCEPT ![i].pc = "threw"]
  /\ UNCHANGED <<schedVars, connectorRegistry, registrations, parseLog,
                 queueVars, enrichVars, interestVars, searchVars>>

\* await handler.sync(...) of a manual call throws: syncConnectorById
\* throws too; syncConnectorsByType logs, stores a failure-shaped result
\* (totalItems 0, queued 0) and goes on.
ManualSyncFails(i) ==
  /\ i \in DOMAIN manual /\ manual[i].pc = "sync"
  /\ LET m == manual[i]
     IN manual' = [manual EXCEPT ![i] =
                     IF m.kind = "byId" THEN [m EXCEPT !.pc = "threw"]
                     ELSE ByTypeLoop(
                            [m EXCEPT !.results = MapSet(@, m.idx, "failure")],
                            m.idx + 1)]
  /\ UNCHANGED <<schedVars, connectorRegistry, registrations, parseLog,
                 queueVars, enrichVars, interestVars, searchVars>>

NextManual ==
  \/ \E nodeEnv \in {"production", "development"}, queryOk \in BOOLEAN :
       clock < ManualTicks /\ CronFire(nodeEnv, queryOk)
  \/ \E k \in DOMAIN ticks : SyncReturns(k)
  \/ \E k \in DOMAIN ticks : SyncFails(k)
  \/ \E id \in AllConnectors \cup {NoSuchConnector} : syncConnectorById(id)
  \/ \E type \in RequestedTypes : syncConnectorsByType(type)
  \/ \E i \in DOMAIN manual : ManualSyncReturns(i)
  \/ \E i \in DOMAIN manual : ManualSyncFails(i)

SpecManual == Init /\ [][NextManual]_vars

\* The ticks of a production process whose connector query succeeds, beside
\* syncConnectorById calls.
NextById ==
  \/ CronFire("production", TRUE)
  \/ \E k \in DOMAIN ticks : SyncReturns(k)
  \/ \E k \in DOMAIN ticks : SyncFails(k)
  \/ \E id \in Connectors : syncConnectorById(id)
  \/ \E i \in DOMAIN manual : ManualSyncReturns(i)
  \/ \E i \in DOMAIN manual : ManualSyncFails(i)

SpecById == Init /\ [][NextById]_vars

\* ------------------------------------------------------------------------
\* Connector registry (connector.registry.ts)
\* ------------------------------------------------------------------------
\* The handlers passed to registerConnector: the two of the server, a second
\* handler of type "RssJsonLd" and a handler of a new type.
Handlers ==
  {rssConnectorHandler, spotifyConnectorHandler,
   [type |-> <<"RssJsonLd">>, name |-> "RSS Feed 2"],
   [type |-> <<"podcast">>, name |-> "Podcast"]}

\* Array.from(connectorRegistry.keys())
getRegisteredConnectorTypes(registry) == {h.type : h \in registry}

\* connectorRegistry.has(type)
isConnectorRegistered(registry, type) == \E h \in registry : h.type = type

\* Mutant of RegistrySet: a type that is registered keeps its handler.
RegistrySetKeepsFirst(registry, handler) ==
  IF isConnectorRegistered(registry, handler.type) THEN registry
  ELSE registry \cup {handler}

\* connectorRegistry.set(handler.type, handler)
RegistrySet(registry, handler) ==
  {h \in registry : h.type # handler.type} \cup {handler}

\* registerConnector(handler): warn when the type is registered, then set.
registerConnector(handler) ==
  /\ Len(registrations) < MaxRegistrations
  /\ connectorRegistry' = RegistrySet(connectorRegistry, handler)
  /\ registrations' =
       Append(registrations,
              [handler |-> handler, before |-> connectorRegistry,
               after |-> RegistrySet(connectorRegistry, handler),
               warned |-> isConnectorRegistered(connectorRegistry,
                                                handler.type),
               threw |-> FALSE])
  /\ UNCHANGED <<schedVars, parseLog, manual, queueVars, enrichVars,
                 interestVars, searchVars>>

NextRegistry == \E handler \in Handlers : registerConnector(handler)

SpecRegistry == Init /\ [][NextRegistry]_vars

\* The tokens of a connector_type text.
Tokens == {"{", "}", ",", " "} \cup Words

\* The values of the connector_type column tried: null and every text of up
\* to MaxTokens tokens.
TypeTexts == {Null} \cup SeqsUpTo(Tokens, MaxTokens)

\* Lines 135-145 of schedulerTick for a connector whose connector_type is
\* json: parse the type, look the handler up; the handler is the one the
\* connector would be passed to (NoHandler: the connector is skipped).
ResolveType(json) ==
  /\ parseLog = <<>>
  /\ LET type == parseConnectorType(json)
         handler == IF type = Null THEN NoHandler
                    ELSE getConnectorHandler(type)
     IN parseLog' = <<[input |-> json, type |-> type, handler |-> handler]>>
  /\ UNCHANGED <<schedVars, connectorRegistry, registrations, manual,
                 queueVars, enrichVars, interestVars, searchVars>>

NextParse == \E json \in TypeTexts : ResolveType(json)

SpecParse == Init /\ [][NextParse]_vars

\* ------------------------------------------------------------------------
\* Overlapping enrichment runs (post-enrichment.scheduler.ts,
\* post-enrichment.service.ts, postService.ts)
\* ------------------------------------------------------------------------
\* softDeletePost(id): update posts set is_deleted = true where id = p.
softDeletePost(p) ==
  /\ p \in DOMAIN isDeleted /\ ~isDeleted[p]
  /\ isDeleted' = [isDeleted EXCEPT ![p] = TRUE]
  /\ evLog' = <<>> /\ enqLog' = <<>> /\ retLog' = <<>>
  /\ UNCHANGED <<items, executionCount, rejectionCount, pendingTick, elapsed,
                 activeSyncJob, handlers, posts, calls, batch, nextBatch,
                 disturbed, overwrites, aiChecked, chosen, gifs, links, done,
                 passed, auxVars>>

\* What the image searches answer for post p when runs overlap: nothing,
\* or one url, the same whenever the post is enriched again; the posts p
\* and p + NumUrls get the same url.
RunResponses(p) == {<<>>, <<<<((p - 1) % NumUrls) + 1>>>>}

InitRuns == InitRest /\ InitTables(RunPosts)

\* The scheduled run and triggerManualEnrichment both call enrichPostsList;
\* nothing keeps a call from starting while items of an earlier call wait.
NextRuns ==
  \/ \E cb \in {"none", "ok"} : EnrichRun(cb, MaxOverlapRuns)
  \/ \E p \in RunPosts : softDeletePost(p)
  \/ TimePasses
  \/ TimerFire
  \/ \E h \in handlers, topicOk \in BOOLEAN :
       \E r \in RunResponses(h.key) : EnrichGif(h, topicOk, r)
  \/ \E h \in handlers, ids \in {Interests} : EnrichInterests(h, TRUE, ids)
  \/ \E h \in handlers : EnrichSaveGif(h)
  \/ \E h \in handlers : EnrichSaveLinks(h)
  \/ \E h \in handlers : EnrichMark(h)

SpecRuns == InitRuns /\ [][NextRuns]_vars

\* ------------------------------------------------------------------------
\* Enrichment runs one after the other, without end
\* ------------------------------------------------------------------------
\* The scheduled job runs every two hours and the items of a run are done
\* long before the next: a run selects its posts and hands them to the
\* queue, the queue passes them on one by one, and the next run starts when
\* the backlog is empty. The counters of the queue and of the tracker grow
\* with every run and have no part in the selection; they are left as they
\* are, so that the runs can go on without end.
ScheduledRun ==
  /\ items = <<>>
  /\ LET postsToEnrich == getUnenrichedPosts(MAX_POSTS_PER_RUN)
     IN /\ items' = [i \in 1..Len(postsToEnrich) |->
                       [batch |-> 1, pos |-> i, key |-> postsToEnrich[i]]]
        /\ chosen' = chosen \cup {postsToEnrich[i] :
                                    i \in 1..Len(postsToEnrich)}
  /\ evLog' = <<>> /\ enqLog' = <<>> /\ retLog' = <<>>
  /\ UNCHANGED <<executionCount, rejectionCount, pendingTick, elapsed,
                 activeSyncJob, handlers, posts, calls, batch, nextBatch,
                 disturbed, overwrites, aiChecked, isDeleted, gifs, links,
                 done, passed, auxVars>>

\* The item handler for the oldest item, from enrichSinglePost to the end
\* of saveEnrichmentResult: without image the post is skipped; when
\* createGif throws the handler logs the error; else the image row is
\* stored and the post is marked (the interests have no part in the
\* selection and are left out).
ProcessItem(topicOk, responses) ==
  /\ items # <<>>
  /\ topicOk \/ responses = <<>>
  /\ LET p == Head(items).key
         url == getTopicAndGif(topicOk, responses)
     IN IF SkipsPost(url) \/ GifInsertConflicts(url, p)
          THEN UNCHANGED <<gifs, aiChecked>>
          ELSE /\ gifs' = gifs \cup {[url |-> url, postId |-> p]}
               /\ aiChecked' = [aiChecked EXCEPT ![p] = TRUE]
  /\ items' = Tail(items)
  /\ evLog' = <<>> /\ enqLog' = <<>> /\ retLog' = <<>>
  /\ UNCHANGED <<executionCount, rejectionCount, pendingTick, elapsed,
                 activeSyncJob, handlers, posts, calls, batch, nextBatch,
                 disturbed, overwrites, isDeleted, chosen, links, done,
                 passed, auxVars>>

NextWindow ==
  \/ ScheduledRun
  \/ \E topicOk \in BOOLEAN :
       \E r \in RunResponses(IF items = <<>> THEN 1 ELSE Head(items).key) :
         ProcessItem(topicOk, r)
  \/ \E p \in RunPosts : softDeletePost(p)

\* The cron job keeps firing and the queue keeps passing items on.
SpecWindow ==
  /\ InitRuns
  /\ [][NextWindow]_vars
  /\ WF_vars(ScheduledRun)
  /\ WF_vars(\E topicOk \in BOOLEAN :
               \E r \in RunResponses(IF items = <<>> THEN 1
                                     ELSE Head(items).key) :
                 ProcessItem(topicOk, r))

\* ------------------------------------------------------------------------
\* Properties of the connector queue and the completion tracker
\* ------------------------------------------------------------------------
Submitted == 1..(nextBatch - 1)

\* The queue is quiescent: empty backlog, no wait timer, no handler running.
Quiescent == items = <<>> /\ ~pendingTick /\ handlers = {}

CallsFor(b) == {i \in DOMAIN calls : calls[i].batch = b}

\* C1: the backlog never exceeds maxSize, neither between steps nor right
\* after an addItem appended; an addItem made while size = maxSize adds one
\* to rejectionCount and leaves the size as it was.
C1_QueueCapacity ==
  /\ Len(items) <= MAX_SIZE
  /\ \A i \in DOMAIN enqLog :
       LET e == enqLog[i]
       IN /\ e.sizeAfterAppend <= MAX_SIZE
          /\ e.sizeBefore = MAX_SIZE =>
               /\ ~e.accepted
               /\ e.rejAfter = e.rejBefore + 1
               /\ e.sizeAfter = e.sizeBefore
          /\ e.sizeBefore < MAX_SIZE => e.accepted /\ e.rejAfter = e.rejBefore

\* C1 witness: an addItem was made on a full backlog and was rejected.
C1_Witness ==
  \E i \in DOMAIN enqLog :
    enqLog[i].sizeBefore = MAX_SIZE /\ enqLog[i].rejAfter = rejectionCount

\* C2 (as claimed): a batch of K >= 1 items with a callback, all accepted,
\* during whose processing no other sync call ran, has once all its items
\* are processed exactly one callback invocation, with queued = K and
\* processed = K.
C2_FiresOnceWithK ==
  \A b \in Submitted :
    ( /\ batch[b].cb # "none"
      /\ batch[b].size >= 1
      /\ batch[b].accepted = batch[b].size
      /\ batch[b].finished = batch[b].size
      /\ b \notin disturbed )
    => /\ Cardinality(CallsFor(b)) = 1
       /\ \A i \in CallsFor(b) :
            calls[i].queued = batch[b].size /\ calls[i].processed = batch[b].size

\* C3: the callback of one armed tracker is invoked at most once, the
\* tracker is already cleared when the callback runs, and a rejecting
\* callback leaves the queue as it is: every accepted item is in the
\* backlog or was executed.
C3_AtMostOnce ==
  /\ \A b \in Submitted : Cardinality(CallsFor(b)) <= 1
  /\ \A i \in DOMAIN calls : ~calls[i].armedAtCall
  /\ \A e \in {evLog[i] : i \in DOMAIN evLog} : e.fired => ~e.jobAfter.armed
  /\ LET RECURSIVE Acc(_)
         Acc(b) == IF b = 0 THEN 0 ELSE batch[b].accepted + Acc(b - 1)
     IN Acc(nextBatch - 1) = Len(items) + executionCount

\* C3 witness: a callback has fired (and rejected), and a later sync call
\* has put further items through the queue.
C3_Witness ==
  \E i \in DOMAIN calls :
    /\ calls[i].failed
    /\ \E b \in Submitted : b > calls[i].batch /\ batch[b].started >= 1

\* C4: no callback is invoked with processed = 0, and an event with size 0
\* raised while executionCount still equals the armed tracker's
\* startExecutionCount neither fires nor changes the tracker.
C4_NoFireBeforeExecution ==
  /\ \A i \in DOMAIN calls : calls[i].processed >= 1
  /\ \A i \in DOMAIN evLog :
       LET e == evLog[i]
       IN ( /\ e.job.armed
            /\ e.size = 0
            /\ e.executionCount = e.job.startExecutionCount )
          => ~e.fired /\ e.jobAfter = e.job

\* C4 witness: such an event happened (the first item of a batch leaves the
\* backlog before its execution is counted).
C4_Witness ==
  \E i \in DOMAIN evLog :
    /\ evLog[i].job.armed
    /\ evLog[i].size = 0
    /\ evLog[i].executionCount = evLog[i].job.startExecutionCount

\* C5 (as claimed): when a batch's callback is invoked, the handler of every
\* accepted item of that batch has finished.
C5_CallbackAfterHandlers ==
  \A i \in DOMAIN calls : calls[i].unfinished = 0

\* C6 (as claimed): when sync b2 replaced the armed tracker of b1, the
\* callback of b1 is never invoked, and once the queue is quiescent every
\* accepted item of both batches was processed and, b2 being the last sync
\* call, the callback of b2 was invoked.
C6_SecondTrackerFires ==
  \A o \in overwrites :
    /\ CallsFor(o[1]) = {}
    /\ (Quiescent /\ o[2] = nextBatch - 1) =>
         /\ batch[o[1]].finished = batch[o[1]].accepted
         /\ batch[o[2]].finished = batch[o[2]].accepted
         /\ batch[o[2]].accepted >= 1 => CallsFor(o[2]) # {}

\* C7 (as claimed): once the queue has drained, the repository holds at most
\* one post per (sourceLink, sourceKey).
C7_OnePostPerKey ==
  Quiescent => \A k \in Keys : posts[k] <= 1

\* C8 (as claimed): an insert for a key that already has a row creates no
\* row (the losing insert returns nothing).
C8_LoserInsertsNothing ==
  [][\A k \in Keys : posts[k] >= 1 => posts'[k] = posts[k]]_vars

C10_InterestFailureKeepsPhase1 ==
  \A d \in done :
    (d.url # NoUrl /\ d.intsFailed) =>
      ~d.threw /\ d.wroteGif /\ ~d.wroteLinks /\ d.marked

\* C11: an execution about to write aiChecked has inserted its image row
\* and a link for each of its interests, and every post with aiChecked set
\* has its image row.
C11_MarkedAfterWrites ==
  /\ \A h \in handlers :
       h.pc = "mark" =>
         /\ h.wroteGif
         /\ [url |-> h.url, postId |-> h.key] \in gifs
         /\ \A i \in h.ints : links[h.key][i] >= 1
  /\ \A d \in done : d.marked => d.wroteGif
  /\ \A p \in PostIds : aiChecked[p] => \E g \in gifs : g.postId = p

\* C11 witness: a post with interests was marked after both inserts.
C11_Witness ==
  \E d \in done :
    d.marked /\ d.wroteLinks /\ aiChecked[d.post]
      /\ \E i \in Interests : links[d.post][i] >= 1

\* C12 (as claimed): every finished execution whose phase 1 produced a url
\* has set the post's aiChecked timestamp.
C12_Phase1ImpliesMarked ==
  \A d \in done : d.url # NoUrl => d.marked /\ aiChecked[d.post]

\* C13 (as claimed): the url an execution got from getGif was not in the
\* gifs table when getGif returned it.
C13_GetGifReturnsNewUrl ==
  \A h \in handlers : h.url # NoUrl => ~h.urlStored

\* ------------------------------------------------------------------------
\* Properties of the interest suggestion
\* ------------------------------------------------------------------------
\* Depth d of the current suggestInterests call has returned.
DepthRan(d) == depthPc \in (d + 1)..4

\* C14: the store query of depth 2 (3) carries a parent filter equal to the
\* set of ids selected at depth 1 (2) and offers only children of those
\* ids; when the depth above selected nothing, the depth makes no store
\* query and no AI call and returns no id.
C14_ParentFilter ==
  \A d \in 2..3 :
    DepthRan(d) =>
      IF selected[d - 1] = <<>>
        THEN /\ ~depthLog[d].queried
             /\ ~depthLog[d].aiCalled
             /\ selected[d] = <<>>
        ELSE /\ depthLog[d].queried
             /\ depthLog[d].filtered
             /\ depthLog[d].parents = Range(selected[d - 1])
             /\ depthLog[d].offered =
                  {i \in interestStore :
                     DepthOf(i) = d /\ ParentOf(i) \in Range(selected[d - 1])}

\* C14 witness: depth 1 selected two ids, depth 2 was queried with both and
\* selected none, and depth 3 has returned.
C14_Witness ==
  /\ DepthRan(3)
  /\ Cardinality(Range(selected[1])) = 2
  /\ Cardinality(depthLog[2].offered) = 2
  /\ selected[2] = <<>>

\* C15: the ids a depth returns are ids offered at that depth: they are
\* the lines of the AI response (kept for the depth that ran last) that
\* were offered, in their order; the other lines are dropped and the call
\* goes on.
C15_OnlyOfferedIds ==
  \A d \in 1..3 :
    /\ DepthRan(d) => Range(selected[d]) \subseteq depthLog[d].offered
    /\ depthPc = d + 1 =>
         selected[d] =
           SelectSeq(depthLog[d].text, LAMBDA x : x \in depthLog[d].offered)

\* C15 witness: a response had an offered id and a line that was not
\* offered (no id at all, or an id of another depth), and the call went on
\* to return.
C15_Witness ==
  /\ depthPc = 4
  /\ \E d \in 1..3 :
       /\ Len(selected[d]) = 1
       /\ Len(depthLog[d].text) = 2
       /\ \E i \in 1..2 :
            depthLog[d].text[i] \in InterestIds \ depthLog[d].offered

\* ------------------------------------------------------------------------
\* Properties of the search computation
\* ------------------------------------------------------------------------
\* Number of non-empty keywords on the lines whose area is in the mapping.
RECURSIVE MappedKeywordCount(_, _)
MappedKeywordCount(lines, i) ==
  IF i > Len(lines) THEN 0
  ELSE (IF lines[i].area \in DOMAIN SEARCH_MAPPINGS
          THEN Len(parseTopicLine(lines[i]).keywords) ELSE 0)
       + MappedKeywordCount(lines, i + 1)

\* C16 (as claimed): the result holds one search per keyword of a line whose
\* area is in the mapping and none for any other area, in non-decreasing
\* priority of the area.
C16_SearchesByPriority ==
  searched =>
    /\ Len(gifSearches) = MappedKeywordCount(topicSuggestion, 1)
    /\ \A i \in DOMAIN gifSearches :
         gifSearches[i].area \in DOMAIN SEARCH_MAPPINGS
    /\ \A i, j \in DOMAIN gifSearches :
         ( /\ i < j
           /\ gifSearches[i].area \in DOMAIN SEARCH_MAPPINGS
           /\ gifSearches[j].area \in DOMAIN SEARCH_MAPPINGS )
         => SEARCH_MAPPINGS[gifSearches[i].area]
              <= SEARCH_MAPPINGS[gifSearches[j].area]

\* ------------------------------------------------------------------------
\* Properties of the sync scheduler
\* ------------------------------------------------------------------------
\* Ticks that went through the whole connector list.
DoneTicks == {k \in DOMAIN ticks : ticks[k].pc = "done"}

\* C17: every handler.sync call of a tick is for a connector whose type
\* resolves to a registered handler and that had no lastSyncTime or one at
\* least its fetch period (the default when unset) before the tick's now;
\* a connector without resolvable type or handler is never synced and
\* never gets a lastSyncTime.
C17_SyncOnlyWhenDue ==
  /\ \A i \in DOMAIN dispatches :
       LET d == dispatches[i]
       IN /\ parseConnectorType(connectorType(d.connector)) # Null
          /\ getConnectorHandler(parseConnectorType(
                connectorType(d.connector))) # NoHandler
          /\ \/ d.lastSeen = NoTime
             \/ d.now - d.lastSeen >= (IF fetchPeriodMinutes(d.connector) # 0
                                         THEN fetchPeriodMinutes(d.connector)
                                         ELSE DEFAULT_FETCH_PERIOD)
  /\ \A c \in Connectors :
       getConnectorHandler(parseConnectorType(connectorType(c))) = NoHandler =>
         /\ lastSyncTimes[c] = NoTime
         /\ \A i \in DOMAIN dispatches : dispatches[i].connector # c
         /\ \A k \in DoneTicks : ticks[k].seen[c] \in {"invalid", "nohandler"}

\* C17 witness: a connector without fetch_period_minutes was synced again
\* once the default period had passed, after a tick had found it not due,
\* and connectors without type and without handler were skipped.
C17_Witness ==
  /\ \E i \in DOMAIN dispatches :
       /\ fetchPeriodMinutes(dispatches[i].connector) = 0
       /\ dispatches[i].lastSeen # NoTime
       /\ \E k \in DoneTicks :
            k < dispatches[i].tick
              /\ ticks[k].seen[dispatches[i].connector] = "notdue"
  /\ \E k \in DoneTicks, c1, c2 \in Connectors :
       ticks[k].seen[c1] = "invalid" /\ ticks[k].seen[c2] = "nohandler"

\* C18 (as claimed; a sync repeated after a failed one, which C20
\* describes, is left aside): two handler.sync calls of ticks for the same
\* connector are at least its fetch period apart.
C18_DispatchesPeriodApart ==
  \A i, j \in DOMAIN dispatches :
    ( /\ i < j
      /\ dispatches[i].connector = dispatches[j].connector
      /\ dispatches[i].outcome # "failed" )
    => dispatches[j].at - dispatches[i].at
         >= FetchPeriod(dispatches[i].connector)

\* C19: a tick in which a handler.sync failed still went through every
\* connector of the list: each was skipped for its type, found not due, or
\* synced.
C19_FailureDoesNotAbortTick ==
  \A k \in DOMAIN ticks :
    LET t == ticks[k]
    IN /\ (t.failedSyncs > 0 /\ t.pc = "done") =>
            \A c \in Connectors : t.seen[c] # "none"
       /\ (t.failedSyncs > 0 /\ t.pc = "sync") =>
            \A c \in 1..t.idx : t.seen[c] # "none"
       /\ t.failedSyncs > 0 => t.pc \in {"sync", "done"}

\* C19 witness: a tick whose first sync failed went on to sync a later
\* connector and finished.
C19_Witness ==
  \E i, j \in DOMAIN dispatches :
    /\ i < j
    /\ dispatches[i].tick = dispatches[j].tick
    /\ dispatches[i].outcome = "failed"
    /\ dispatches[j].outcome = "ok"
    /\ dispatches[i].tick \in DoneTicks

\* C20: a failed sync leaves lastSyncTimes as it was and a successful one
\* sets it to the tick's now; every recorded time is the now of a tick
\* whose sync of that connector succeeded, and a tick finds a connector
\* not due only because of such a success less than a period before.
C20_RecordedOnlyOnSuccess ==
  /\ \A i \in DOMAIN dispatches :
       LET d == dispatches[i]
       IN /\ d.outcome = "failed" => d.lastAfter = d.lastBefore
          /\ d.outcome = "ok" => d.lastAfter = d.now
  /\ \A c \in Connectors :
       lastSyncTimes[c] # NoTime =>
         \E i \in DOMAIN dispatches :
           /\ dispatches[i].connector = c
           /\ dispatches[i].outcome = "ok"
           /\ dispatches[i].now = lastSyncTimes[c]
  /\ \A k \in DOMAIN ticks, c \in Connectors :
       ticks[k].seen[c] = "notdue" =>
         \E i \in DOMAIN dispatches :
           /\ dispatches[i].connector = c
           /\ dispatches[i].outcome = "ok"
           /\ ticks[k].now - dispatches[i].now < FetchPeriod(c)

\* C20 witness: a sync failed in one tick and the next tick synced the
\* same connector again.
C20_Witness ==
  \E i, j \in DOMAIN dispatches :
    /\ dispatches[i].connector = dispatches[j].connector
    /\ dispatches[i].outcome = "failed"
    /\ dispatches[j].tick = dispatches[i].tick + 1
    /\ dispatches[j].at > dispatches[i].at
    /\ dispatches[j].lastSeen = dispatches[i].lastAfter

\* ------------------------------------------------------------------------
\* Properties of the manual sync calls
\* ------------------------------------------------------------------------
\* The active connectors whose parsed type is type.
ConnectorsOfType(type) ==
  {c \in Connectors : parseConnectorType(connectorType(c)) = type}

\* The connector of a syncConnectorById call resolves to a handler.
Resolvable(id) ==
  /\ id \in AllConnectors
  /\ parseConnectorType(connectorType(id)) # Null
  /\ getConnectorHandler(parseConnectorType(connectorType(id))) # NoHandler

\* The manual calls that recorded a sync time for connector c.
RecordedBy(c) ==
  {i \in DOMAIN manual : [id |-> c, shape |-> "result"] \in manual[i].results}

\* C21: a tick in a process with NODE_ENV local or development returns
\* before the connector query: it looks at no connector and calls no
\* handler.sync, so nothing is dispatched to a queue, and every recorded
\* lastSyncTime comes from a manual sync call; a manual call made in such a
\* process goes on to its handler.sync call as in production.
C21_SkippedTickNoEffect ==
  /\ \A k \in DOMAIN ticks :
       ticks[k].nodeEnv \in {"local", "development"} =>
         /\ ticks[k].pc = "skipped"
         /\ \A c \in Connectors : ticks[k].seen[c] = "none"
         /\ dispatches = <<>>
         /\ \A c \in AllConnectors :
              lastSyncTimes[c] # NoTime => RecordedBy(c) # {}
  /\ \A i \in DOMAIN manual :
       (manual[i].kind = "byId" /\ Resolvable(manual[i].id)) =>
         manual[i].syncs = <<manual[i].id>>

\* C21 witness: in a development process a tick was skipped and a manual
\* call made after it has synced a connector and recorded the time.
C21_Witness ==
  \E k \in DOMAIN ticks, i \in DOMAIN manual :
    /\ ticks[k].nodeEnv = "development"
    /\ manual[i].at >= ticks[k].now
    /\ manual[i].pc = "returned"
    /\ \E c \in Connectors :
         lastSyncTimes[c] # NoTime /\ manual[i].syncs = <<c>>

\* C22: a syncConnectorById call whose connector resolves to a handler
\* passes the connector to that handler whatever its lastSyncTime; a call
\* whose row, type or handler is missing throws, has called no handler and
\* has recorded no time (every recorded time then comes from a tick or
\* from another manual call).
C22_ByIdBypassesDueCheck ==
  \A i \in DOMAIN manual :
    LET m == manual[i]
    IN m.kind = "byId" =>
         IF Resolvable(m.id)
           THEN /\ m.syncs = <<m.id>>
                /\ m.handler.type = parseConnectorType(connectorType(m.id))
                /\ m.pc \in {"sync", "returned", "threw"}
           ELSE /\ m.pc = "threw"
                /\ m.syncs = <<>>
                /\ m.results = {}
                /\ RecordedBy(m.id) = {}
                /\ \A c \in AllConnectors :
                     lastSyncTimes[c] # NoTime =>
                       \/ RecordedBy(c) # {}
                       \/ \E j \in DOMAIN dispatches :
                            /\ dispatches[j].connector = c
                            /\ dispatches[j].outcome = "ok"
                            /\ dispatches[j].now = lastSyncTimes[c]

\* C22 witness: a connector synced by a tick less than its period ago was
\* synced again by syncConnectorById, which returned.
C22_Witness ==
  \E i \in DOMAIN manual :
    /\ manual[i].kind = "byId"
    /\ manual[i].lastAtCall # NoTime
    /\ manual[i].at - manual[i].lastAtCall < FetchPeriod(manual[i].id)
    /\ manual[i].pc = "returned"

\* C23: a syncConnectorsByType call for a registered type never throws
\* because a handler.sync failed; when it returns, its map has exactly one
\* entry for every active connector whose parsed type is the requested
\* one, each of them was passed to handler.sync once, and the entry of a
\* failed sync is the failure-shaped result.
C23_ByTypeResults ==
  \A i \in DOMAIN manual :
    LET m == manual[i]
        ids == {e.id : e \in m.results}
    IN m.kind = "byType" =>
         /\ getConnectorHandler(m.type) # NoHandler => m.pc # "threw"
         /\ Cardinality(m.results) = Cardinality(ids)
         /\ m.pc = "returned" =>
              /\ ids = ConnectorsOfType(m.type)
              /\ Range(m.syncs) = ConnectorsOfType(m.type)
              /\ Len(m.syncs) = Cardinality(ConnectorsOfType(m.type))
         /\ m.pc = "sync" =>
              ids = Range(m.syncs) \ {m.idx}

\* C23 witness: the sync of the first matching connector failed, the next
\* matching connector was synced, and the call returned both entries.
C23_Witness ==
  \E i \in DOMAIN manual, c1, c2 \in Connectors :
    /\ manual[i].kind = "byType" /\ manual[i].pc = "returned"
    /\ c1 < c2
    /\ [id |-> c1, shape |-> "failure"] \in manual[i].results
    /\ [id |-> c2, shape |-> "result"] \in manual[i].results

C25_ParseTypeAsClaimed ==
  \A i \in DOMAIN parseLog :
    LET e == parseLog[i]
        keys == IF e.input = Null THEN Null ELSE JsonKeys(e.input)
    IN /\ e.input \in {Null, <<>>} => e.type = Null
       /\ (e.input # Null /\ Len(e.input) = 1 /\ e.input[1] \in Words) =>
            e.type = e.input
       /\ (keys # Null /\ Len(keys) = 1) => e.type = <<keys[1]>>
       /\ keys = <<>> => e.type = Null
       /\ (e.input # Null /\ e.input # <<>> /\ keys = Null) =>
            (e.input[1] = "{" => e.type = Null)
       /\ e.handler # NoHandler =>
            /\ e.type # Null
            /\ e.handler \in connectorRegistry
                    /\ e.handler.type = e.type

\* ------------------------------------------------------------------------
\* Properties of the queue's item processing
\* ------------------------------------------------------------------------
\* Number of items of batch b in the backlog.
Backlog(b) == Cardinality({i \in DOMAIN items : items[i].batch = b})

RECURSIVE RejectedUpTo(_)
RejectedUpTo(b) ==
  IF b = 0 THEN 0 ELSE Cardinality(batch[b].rejected) + RejectedUpTo(b - 1)

\* C26: every accepted item is in the backlog or was passed to the handler
\* exactly once, whatever handlers failed: no item is started twice or put
\* back, and while the backlog is not empty the wait timer is set, so the
\* items behind a failed item are started in turn.
C26_FailureKeepsQueueGoing ==
  /\ \A b \in Submitted :
       /\ batch[b].started = Cardinality(batch[b].startedPos)
       /\ batch[b].accepted = batch[b].started + Backlog(b)
       /\ batch[b].failedPos \subseteq batch[b].startedPos
       /\ \A i \in DOMAIN items :
            items[i].batch = b => items[i].pos \notin batch[b].startedPos
       /\ \A h \in handlers : h.batch = b => h.pos \notin batch[b].failedPos
  /\ Len(items) > 0 => pendingTick

\* C26 witness: the handler of an item failed and the item behind it was
\* started afterwards and has finished.
C26_Witness ==
  \E b \in Submitted :
    /\ 1 \in batch[b].failedPos
    /\ 2 \in batch[b].startedPos
    /\ batch[b].created >= 1
    /\ batch[b].finished = batch[b].accepted
    /\ items = <<>>

\* C27: an execution starts at least WAIT_MS after the execution before it
\* started (gap is the time since then, counted up to WAIT_MS), also when
\* a handler of the batch had failed by then.
C27_StartsWaitApart ==
  \A h \in handlers : h.gap >= WAIT_MS

\* C27 witness: the handler of item 1 failed before the wait was over, and
\* item 2 was started when the wait was over.
C27_Witness ==
  \E h \in handlers :
    /\ h.pos = 2
    /\ h.sawFailure
    /\ 1 \in batch[h.batch].failedPos
    /\ h.gap = WAIT_MS

\* C28: an addItem on a full queue counts the rejection and calls onReject,
\* and the sync call goes on to its return; a rejected item is never in
\* the backlog and never passed to the handler, and every item a sync call
\* submitted was either accepted or rejected.
C28_RejectedIsDropped ==
  /\ \A i \in DOMAIN enqLog :
       /\ enqLog[i].accepted <=> ~enqLog[i].onReject
       /\ ~enqLog[i].accepted => enqLog[i].rejAfter = enqLog[i].rejBefore + 1
  /\ (\E i \in DOMAIN enqLog : ~enqLog[i].accepted) =>
       /\ Len(retLog) = 1
       /\ retLog[1].result.queued = Len(enqLog)
  /\ rejectionCount = RejectedUpTo(nextBatch - 1)
  /\ \A b \in Submitted :
       /\ batch[b].accepted + Cardinality(batch[b].rejected) = batch[b].size
       /\ batch[b].rejected \cap batch[b].startedPos = {}
       /\ \A i \in DOMAIN items :
            items[i].batch = b => items[i].pos \notin batch[b].rejected
       /\ \A h \in handlers : h.batch = b => h.pos \notin batch[b].rejected

\* C28 witness: an item was rejected, the queue has drained since, and the
\* item was not processed.
C28_Witness ==
  /\ Quiescent
  /\ \E b \in Submitted :
       /\ batch[b].rejected # {}
       /\ batch[b].finished = batch[b].accepted
       /\ batch[b].accepted >= 1

\* C29 (as claimed): the result's totalItems is the number of items the
\* source had, its queued is the smaller of totalItems and the maximum
\* item count, and a call creates no more posts than it queued.
C29_TotalBeforeTruncation ==
  /\ \A i \in DOMAIN retLog :
       LET r == retLog[i].result
       IN /\ r.totalItems = batch[retLog[i].batch].upstream
          /\ r.queued = Min(r.totalItems, DEFAULT_MAX_ITEMS)
          /\ r.queued = batch[retLog[i].batch].size
  /\ \A b \in Submitted : batch[b].created <= batch[b].size

\* C30 (as claimed): the result's processed is the queue's executionCount
\* and its queueSize the size of the backlog when the call returns.
C30_ResultIsSnapshot ==
  \A i \in DOMAIN retLog :
    /\ retLog[i].result.processed = retLog[i].executionCount
    /\ retLog[i].result.queueSize = retLog[i].size

\* ------------------------------------------------------------------------
\* Properties of the counts a call reports
\* ------------------------------------------------------------------------
\* C31 (as claimed): the queued value a sync call returns and the queued
\* value passed to its completion callback are the number of items of the
\* call that the queue accepted.
C31_QueuedIsAccepted ==
  /\ \A i \in DOMAIN retLog :
       retLog[i].result.queued = batch[retLog[i].batch].accepted
  /\ \A i \in DOMAIN calls :
       calls[i].queued = batch[calls[i].batch].accepted

\* ------------------------------------------------------------------------
\* Properties of the enrichment runs
\* ------------------------------------------------------------------------
\* Posts an enrichment run may select.
Eligible == {p \in DOMAIN aiChecked : ~aiChecked[p] /\ ~isDeleted[p]}

\* C32: a step that is an enrichment run makes at most MAX_POSTS_PER_RUN
\* addItem calls, and what it put into the queue are posts that were
\* neither enriched nor deleted; with no such post it returns {queued: 0}
\* and leaves the queue and the completion tracker as they were.
C32_RunSelectsUnenriched ==
  [][nextBatch' # nextBatch =>
       LET b == nextBatch
           enq == {items'[i].key : i \in {j \in DOMAIN items' :
                                             items'[j].batch = b}}
                    \cup {h.key : h \in {g \in handlers' : g.batch = b}}
       IN /\ enq \subseteq Eligible
          /\ batch'[b].accepted = Cardinality(enq)
          /\ Len(enqLog') <= MAX_POSTS_PER_RUN
          /\ Len(enqLog') <= Cardinality(Eligible)
          /\ Eligible = {} =>
               /\ retLog' = <<[batch |-> b, result |-> [queued |-> 0],
                               size |-> Len(items),
                               executionCount |-> executionCount]>>
               /\ UNCHANGED <<items, executionCount, rejectionCount,
                              pendingTick, activeSyncJob, handlers, calls>>
  ]_vars

\* C32 witness: a run with a callback found no post to enrich (the posts
\* still in the queue were deleted) and returned the no-op result while
\* the backlog was not empty and the tracker of an earlier run was armed.
C32_Witness ==
  /\ Len(retLog) = 1
  /\ retLog[1].result = [queued |-> 0]
  /\ batch[retLog[1].batch].cb = "ok"
  /\ items # <<>>
  /\ activeSyncJob.armed
  /\ activeSyncJob.batch < retLog[1].batch
  /\ \E p \in DOMAIN aiChecked : isDeleted[p] /\ ~aiChecked[p]

\* C33 (as claimed): the processed value passed to a completion callback
\* is at most the queuedCount passed with it.
C33_ProcessedAtMostQueued ==
  \A i \in DOMAIN calls : calls[i].processed <= calls[i].queued

\* C34 (as claimed): a sync call that fails (it returns no result) leaves
\* the completion tracker as it was, so a tracker armed by an earlier call
\* stays armed.
C34_FailedCallKeepsTracker ==
  [][(nextBatch' # nextBatch /\ retLog' = <<>>) =>
       activeSyncJob' = activeSyncJob]_vars

\* ------------------------------------------------------------------------
\* Progress of the queue
\* ------------------------------------------------------------------------
\* C35: when the timers of the event loop fire and the handlers take their
\* steps, a non-empty backlog becomes empty, and every sync call's accepted
\* items are all passed to the handler, whatever the handlers' outcomes.
C35_BacklogDrains ==
  /\ (Len(items) > 0) ~> (Len(items) = 0)
  /\ \A b \in Batches :
       (batch[b].started < batch[b].accepted)
         ~> (batch[b].started = batch[b].accepted)

\* C35 witness: the backlog is empty again after two sync calls had each
\* an item waiting and a handler of each call has failed.
C35_Witness ==
  /\ items = <<>>
  /\ nextBatch > 2
  /\ \A b \in 1..2 :
       /\ batch[b].failedPos # {}
       /\ batch[b].accepted >= 1
       /\ batch[b].started = batch[b].accepted

\* Number of addItem calls made by the sync calls 1..b.
RECURSIVE Attempts(_)
Attempts(b) == IF b = 0 THEN 0 ELSE batch[b].size + Attempts(b - 1)

C37_NoStageAfterMark ==
  [][/\ \A h \in handlers :
          (aiChecked[h.key] /\ h.pc \in {"start", "interests"})
            => h \in handlers'
     /\ \A p \in DOMAIN aiChecked :
          aiChecked[p] =>
            /\ {g \in gifs' : g.postId = p} = {g \in gifs : g.postId = p}
            /\ links'[p] = links[p]
  ]_vars

\* C38 (as claimed): when runs keep occurring, every post is at some time
\* selected by a run, or is deleted.
C38_EveryPostSelected ==
  \A p \in RunPosts : <>(p \in chosen \/ isDeleted[p])

\* ------------------------------------------------------------------------
\* Properties of the recorded sync times
\* ------------------------------------------------------------------------
\* C39 (as claimed): no step lowers the recorded last sync time of a
\* connector.
C39_LastSyncTimeMonotone ==
  [][\A c \in AllConnectors : lastSyncTimes'[c] >= lastSyncTimes[c]]_vars

\* C40 (as claimed): a manual sync that returned a result has recorded a
\* time for the connector, a manual sync that failed has recorded none,
\* and a tick that starts after a manual sync recorded its time passes the
\* connector to handler.sync only when the fetch period has passed since
\* that time.
C40_TickWaitsAfterManual ==
  \A i \in DOMAIN manual :
    /\ \A e \in manual[i].results :
         e.shape = "result" <=> \E r \in manual[i].recorded : r[1] = e.id
    /\ manual[i].pc = "threw" => manual[i].recorded = {}
    /\ \A r \in manual[i].recorded :
         \A j \in DOMAIN dispatches :
           (dispatches[j].connector = r[1] /\ dispatches[j].now > r[2])
             => dispatches[j].now - r[2] >= FetchPeriod(r[1])
====
